---- MODULE Spec2Model ----
(***************************************************************************)
(* Model of koishi-plugin-multi-bot-controller-chatluna-charon: the chain  *)
(* interceptor (pre-hook charon_resolve_bot_room, post-hook                *)
(* charon_fix_room_auto_update), BotManager (parsePresetName, createRoom), *)
(* and the ChatLuna room tables they read and write.                       *)
(*                                                                         *)
(* Strings are sequences of one-character strings, so that split,          *)
(* startsWith and includes are computed the way the JavaScript code        *)
(* computes them.                                                          *)
(***************************************************************************)
EXTENDS Integers, Sequences, FiniteSets, TLC

VARIABLES
    config,       \* BotManager.config : sequence of BotPersonaConfig
    rooms,        \* table chathub_room : set of rows, primary key roomId
    members,      \* table chathub_room_member : set of rows
    groupMembers, \* table chathub_room_group_member : set of rows
    users,        \* table chathub_user : set of rows, unique (userId, groupId)
    uuidCounter,  \* number of randomUUID() values handed out so far
    clock,        \* the wall clock read by new Date(): it advances with every write of the plugin
    characterConfig, \* ctx.chatluna_character._config (NONE: plugin absent)
    procs,        \* the message-processing tasks in flight, one per slot
    botStatusMap, \* BotManager.botStatusMap: botId -> runtime status
    coreCreated,  \* history: the rows BotManager.createRoom created, and for which bot
    raceLog,      \* history: who raced through the create path, and what later messages bound
    presetCache,  \* BotManager.presetCache.get('all') (None: never set)
    refresh,      \* per call slot: the loadPresets call in flight, and the outcome of the last one
    plugin,       \* the plugin instance: its pending timers, interceptor fields, disposed flag
    chain,        \* ChatLuna's chatChain: its task graph and the chain run in flight
    layerConfig, \* the memory layer handed to the init-layer listener
    statusCalls,  \* history: the setBotStatus calls of the status map under test
    botConfigStore, \* ctx.chatluna_character.botConfig: None while the service is absent
    parseIn,      \* argument of the parsePresetName call under test
    parseOut      \* its result (NONE before the call)

vars == <<config, rooms, members, groupMembers, users, uuidCounter, clock,
          characterConfig, procs, botStatusMap, coreCreated, raceLog, presetCache,
          refresh, plugin, chain, layerConfig, statusCalls, botConfigStore, parseIn, parseOut>>


----------------------------------------------------------------------------
(* Bounds of the model. *)

MaxTokens == 4      \* a raw preset name is made of at most this many tokens
MaxRooms == 2       \* chathub_room holds at most this many rows
MaxClock == 2       \* the plugin writes chathub_room at most this many times
MaxUnreferenced == 1  \* pending timeouts the variable presetLoadTimer lost
MaxCalls == 3       \* setBotStatus calls applied to the status map under test
maxChecks == 2      \* the polls of the character plugin before the poll gives up (20 in index.ts)

----------------------------------------------------------------------------
(* Strings. *)

NONE == "none"      \* undefined, for a field holding a plain string

UNDEF == <<"undefined">>  \* undefined, for a field holding a character string

None == << >>       \* undefined / null, for a field holding an object

Some(x) == <<x>>    \* an object held by such a field

EMPTY == << >>      \* the empty string ''

S_chatluna == <<"c","h","a","t","l","u","n","a">>
S_character == <<"c","h","a","r","a","c","t","e","r">>
S_bot_ == <<"b","o","t","_">>

RECURSIVE IndexFrom(_, _, _)
(* s.indexOf(c, from) for a one-character c; 0 when there is none (1-based). *)
IndexFrom(s, c, from) ==
    IF from > Len(s) THEN 0
    ELSE IF s[from] = c THEN from
    ELSE IndexFrom(s, c, from + 1)

RECURSIVE Split(_, _)
(* s.split(c) for a one-character separator c: every piece, in order. *)
Split(s, c) ==
    LET i == IndexFrom(s, c, 1)
    IN  IF i = 0 THEN <<s>>
        ELSE <<SubSeq(s, 1, i - 1)>> \o Split(SubSeq(s, i + 1, Len(s)), c)

(* s.split(c, limit): the first `limit` pieces of s.split(c). *)
SplitLimit(s, c, limit) ==
    LET all == Split(s, c)
    IN  IF Len(all) <= limit THEN all ELSE SubSeq(all, 1, limit)

(* s.startsWith(prefix) *)
StartsWith(s, prefix) ==
    /\ Len(prefix) <= Len(s)
    /\ SubSeq(s, 1, Len(prefix)) = prefix

(* s.includes(part) *)
Includes(s, part) ==
    \E i \in 1..(Len(s) - Len(part) + 1) : SubSeq(s, i, i + Len(part) - 1) = part

----------------------------------------------------------------------------
(* BotManager: pure helpers. *)

PresetSource_ChatLuna == S_chatluna
PresetSource_Character == S_character

parsePresetName(presetName) ==
    LET parts == SplitLimit(presetName, ":", 2)
    IN  IF /\ Len(parts) = 2
           /\ parts[1] \in {PresetSource_ChatLuna, PresetSource_Character}
        THEN [name |-> parts[2], source |-> parts[1]]
        ELSE [name |-> presetName, source |-> PresetSource_ChatLuna]

getBotId(platform, selfId) == platform \o <<":">> \o selfId

parseBotId(botId) ==
    LET parts == SplitLimit(botId, ":", 2)
    IN  [platform |-> parts[1],
         selfId |-> IF Len(parts) >= 2 THEN parts[2] ELSE UNDEF]

(* randomUUID(): the n-th value handed out; distinct for distinct n. *)
Digit == <<"0","1","2","3","4","5","6","7","8","9">>

Uuid(n) == <<"u", Digit[(n \div 10) + 1], Digit[(n % 10) + 1]>>

(* A key that leaves the bot out. *)
generateConversationId_bareUuid(botId, uuid) == S_bot_ \o uuid

generateConversationId(botId, uuid) == S_bot_ \o botId \o <<"_">> \o uuid

(* BotManager.getBotConfig: Array.find, the first entry with that botId. *)
getBotConfig(botId) ==
    LET hits == {i \in 1..Len(config) : config[i].botId = botId}
    IN  IF hits = {} THEN None
        ELSE Some(config[CHOOSE i \in hits : \A j \in hits : i <= j])

----------------------------------------------------------------------------
(* The database, as the code uses it. *)

(* database.get('chathub_room', ...): the rows of S in primary-key order. *)
RECURSIVE SortedRooms(_)
SortedRooms(S) ==
    IF S = {} THEN << >>
    ELSE LET first == CHOOSE r \in S : \A q \in S : r.roomId <= q.roomId
         IN  <<first>> \o SortedRooms(S \ {first})

(* Array.filter *)
Filter(seq, Test(_)) == SelectSeq(seq, Test)

(* Array.find: None when no element passes. *)
Find(seq, Test(_)) ==
    LET hits == Filter(seq, Test)
    IN  IF hits = << >> THEN None ELSE Some(hits[1])

(* a || b on possibly-undefined objects *)
OrElse(a, b) == IF a # None THEN a ELSE b

(* database.upsert('chathub_room', [row]) *)
UpsertRoom(S, row) == {r \in S : r.roomId # row.roomId} \cup {row}

MaxRoomId(S) == IF S = {} THEN 0 ELSE CHOOSE n \in {r.roomId : r \in S} :
                                          \A r \in S : r.roomId <= n

----------------------------------------------------------------------------
(* The inputs of the model: sessions, and the configurations drawn in Init. *)

S_private == <<"p","r","i","v","a","t","e">>

UserIds == {<<"a">>, <<"b">>}
GuildIds == {UNDEF, <<"g">>}

(* session.username: user a has none; user b's display name happens to end
   in a parenthesised bot id. *)
UsernameOf(userId) ==
    IF userId = <<"b">> THEN <<"b">> \o <<" ">> \o <<"(">> \o <<"d">> \o <<":">> \o <<"1">> \o <<")">>
    ELSE UNDEF

(* session.channelId: the channel of the group; in a direct chat user a's
   adapter gives the chat a channel id, user b's gives none. *)
ChannelOf(userId, guildId) ==
    IF guildId # UNDEF THEN <<"c">>
    ELSE IF userId = <<"a">> THEN <<"p">>
    ELSE UNDEF

Session(selfId, userId, guildId) ==
    [platform |-> <<"d">>, selfId |-> selfId, userId |-> userId,
     username |-> UsernameOf(userId), guildId |-> guildId,
     channelId |-> ChannelOf(userId, guildId)]

(* Bots d:1 and d:2 are configured; d:3 is not. *)
Sessions ==
    {Session(<<"1">>, u, g) : u \in UserIds, g \in GuildIds}
    \cup {Session(<<"2">>, <<"b">>, UNDEF)}
    \cup {Session(<<"3">>, <<"a">>, UNDEF)}

(* context.options.room_resolve.name: absent, or (for the first bot) a name
   of no room or the name of a stored room. *)
RoomResolveNames(session) ==
    IF session.selfId = <<"1">>
    THEN {UNDEF, <<"x">>} \cup {r.roomName : r \in rooms}
    ELSE {UNDEF}

PresetChoices == {EMPTY, S_chatluna \o <<":">> \o <<"h">>, S_character \o <<":">> \o <<"k">>}

(* The personas the first configured bot may declare: every enabled
   combination of these presets, models and modes, a preset whose name holds
   a second separator, and one disabled persona. *)
BotPersonaConfigs(botId) ==
    [botId : {botId}, enabled : {TRUE}, preset : PresetChoices,
     model : {"", "m"}, chatMode : {NONE, "plugin"}]
    \cup {[botId |-> botId, enabled |-> TRUE,
           preset |-> S_chatluna \o <<":">> \o <<"h">> \o <<":">> \o <<"k">>,
           model |-> "m", chatMode |-> NONE],
          [botId |-> botId, enabled |-> FALSE, preset |-> <<"h">>, model |-> "m",
           chatMode |-> NONE]}

(* The second configured bot: a fixed persona. *)
SecondBotConfig ==
    [botId |-> getBotId(<<"d">>, <<"2">>), enabled |-> TRUE,
     preset |-> S_chatluna \o <<":">> \o <<"k">>, model |-> "n", chatMode |-> "chat"]

(* The slots of the message-processing tasks and of the status-event tasks. *)
Slots == {1, 2}

TemplateSlots == {3, 4}

(* The bots that come online, and the keys of botStatusMap. *)
Bots == {[platform |-> <<"d">>, selfId |-> selfId] : selfId \in {<<"1">>, <<"2">>, <<"3">>}}

BotIds == {getBotId(bot.platform, bot.selfId) : bot \in Bots}

NoSession ==
    [platform |-> EMPTY, selfId |-> EMPTY, userId |-> EMPTY, username |-> UNDEF,
     guildId |-> UNDEF, channelId |-> UNDEF]

IdleProc ==
    [pc |-> "idle",                \* where the task is suspended
     session |-> NoSession,
     charonBotConfig |-> None,     \* context.options.charonBotConfig
     room |-> None,                \* context.options.room
     roomResolveName |-> UNDEF,    \* context.options.room_resolve.name
     result |-> NONE,              \* what the hook that ran last returned
     ret |-> NONE,                 \* the caller: "pre", "post", or "template"
     botId |-> EMPTY,              \* local botId
     roomIds |-> {},               \* local roomIds
     found |-> << >>,              \* local rooms (after the filter)
     newRoom |-> None,             \* local newRoom of createRoom
     fixedRoom |-> None,           \* local fixedRoom of the post-hook
     snapStart |-> None,           \* history: store when the message arrived
     preRuns |-> 0,                \* history: runs of the pre-hook on this context
     postRuns |-> 0,               \* history: runs of the post-hook on this context
     snapPre |-> None,             \* history: store and binding after the first pre-hook run
     snapHost |-> None,            \* history: store and binding when the post-hook started
     hostRebound |-> FALSE,        \* history: the host step bound another record
     alone |-> TRUE,               \* history: no other message overlapped this one
     later |-> FALSE,              \* history: it arrived after a race of its (bot, user, scope)
     snapPost |-> None]            \* history: store and binding after the first post-hook run

(* The effect of one step of a task: its next local state and the next value
   of everything it may write. *)
Eff(pr) ==
    [proc |-> pr, rooms |-> rooms, members |-> members,
     groupMembers |-> groupMembers, users |-> users,
     uuidCounter |-> uuidCounter, coreCreated |-> coreCreated,
     characterConfig |-> characterConfig,
     botStatusMap |-> botStatusMap,
     clock |-> clock]

StoreOf(e, pr) ==
    [rooms |-> e.rooms, members |-> e.members, groupMembers |-> e.groupMembers,
     users |-> e.users, room |-> pr.room]

(* History bookkeeping: remember the store and the binding when a hook
   completes for the first time on a context. *)
WithSnapshots(old, e) ==
    LET pr == e.proc
        preDone == pr.pc = "host" /\ (old.pc # "host" \/ pr.preRuns # old.preRuns)
        postDone == pr.pc = "done" /\ (old.pc # "done" \/ pr.postRuns # old.postRuns)
    IN  IF preDone /\ pr.preRuns = 1 THEN [pr EXCEPT !.snapPre = Some(StoreOf(e, pr))]
        ELSE IF postDone /\ pr.postRuns = 1 THEN [pr EXCEPT !.snapPost = Some(StoreOf(e, pr))]
        ELSE pr

(* History bookkeeping: a message that overlaps another one of the same
   session, both having reached createRoom, makes the session a raced one; a
   later message of a raced session, processed on its own, logs the record
   each of its hooks returns with. *)
LogRace(p, e) ==
    LET pr == e.proc
        partners == {q \in Slots \ {p} : /\ procs[q].pc # "idle"
                                          /\ procs[q].session = pr.session
                                          /\ procs[q].newRoom # None}
        raced == IF p \in Slots /\ ~pr.alone /\ pr.newRoom # None /\ partners # {}
                 THEN raceLog.raced \cup {pr.session} ELSE raceLog.raced
        bound == IF /\ p \in Slots /\ pr.alone /\ pr.later
                    /\ pr.pc \in {"host", "done"} /\ pr.room # None
                 THEN raceLog.bound \cup {[session |-> pr.session,
                                            roomId |-> pr.room[1].roomId]}
                 ELSE raceLog.bound
    IN  [raced |-> raced, bound |-> bound]

ApplyStore(p, e) ==
    /\ raceLog' = LogRace(p, e)
    /\ rooms' = e.rooms
    /\ members' = e.members
    /\ groupMembers' = e.groupMembers
    /\ users' = e.users
    /\ uuidCounter' = e.uuidCounter
    /\ coreCreated' = e.coreCreated
    /\ characterConfig' = e.characterConfig
    /\ botStatusMap' = e.botStatusMap
    /\ e.clock <= MaxClock
    /\ clock' = e.clock
    /\ UNCHANGED <<config, presetCache, refresh, plugin, chain, layerConfig, statusCalls, botConfigStore, parseIn, parseOut>>

Apply(p, e) ==
    /\ procs' = [procs EXCEPT ![p] = WithSnapshots(procs[p], e)]
    /\ ApplyStore(p, e)

----------------------------------------------------------------------------
(* ChainInterceptor: the post-hook's repair, chain.ts lines 206-249. *)

(* A repair that detects a differing chatMode but does not write it. *)
FixedRoomOf_keepsChatMode(currentRoom, cbc) ==
    LET fixPreset == cbc.preset # EMPTY /\ currentRoom.preset # cbc.preset
        fixModel == cbc.model # "" /\ currentRoom.model # cbc.model
        fixMode == currentRoom.chatMode # cbc.chatMode
    IN  [needsFix |-> fixPreset \/ fixModel \/ fixMode,
         fixedRoom |-> [currentRoom EXCEPT
                          !.preset = IF fixPreset THEN cbc.preset ELSE @,
                          !.model = IF fixModel THEN cbc.model ELSE @]]

(* A repair that also writes an empty declared preset. *)
FixedRoomOf_resetsEmptyPreset(currentRoom, cbc) ==
    LET fixPreset == currentRoom.preset # cbc.preset
        fixModel == cbc.model # "" /\ currentRoom.model # cbc.model
        fixMode == currentRoom.chatMode # cbc.chatMode
    IN  [needsFix |-> fixPreset \/ fixModel \/ fixMode,
         fixedRoom |-> [currentRoom EXCEPT
                          !.preset = IF fixPreset THEN cbc.preset ELSE @,
                          !.model = IF fixModel THEN cbc.model ELSE @,
                          !.chatMode = IF fixMode THEN cbc.chatMode ELSE @]]

(* A repair that also makes the record private. *)
FixedRoomOf_makesPrivate(currentRoom, cbc) ==
    LET fixPreset == cbc.preset # EMPTY /\ currentRoom.preset # cbc.preset
        fixModel == cbc.model # "" /\ currentRoom.model # cbc.model
        fixMode == currentRoom.chatMode # cbc.chatMode
    IN  [needsFix |-> fixPreset \/ fixModel \/ fixMode,
         fixedRoom |-> [currentRoom EXCEPT
                          !.preset = IF fixPreset THEN cbc.preset ELSE @,
                          !.model = IF fixModel THEN cbc.model ELSE @,
                          !.chatMode = IF fixMode THEN cbc.chatMode ELSE @,
                          !.visibility = "private"]]

(* Lines 217-237: the corrected copy and whether anything differs. *)
FixedRoomOf(currentRoom, cbc) ==
    LET fixPreset == cbc.preset # EMPTY /\ currentRoom.preset # cbc.preset
        fixModel == cbc.model # "" /\ currentRoom.model # cbc.model
        fixMode == currentRoom.chatMode # cbc.chatMode
    IN  [needsFix |-> fixPreset \/ fixModel \/ fixMode,
         fixedRoom |-> [currentRoom EXCEPT
                          !.preset = IF fixPreset THEN cbc.preset ELSE @,
                          !.model = IF fixModel THEN cbc.model ELSE @,
                          !.chatMode = IF fixMode THEN cbc.chatMode ELSE @]]

(* Lines 206-241: up to the await of database.upsert. *)
FixStage(pr) ==
    IF pr.room = None
    THEN [pr EXCEPT !.pc = "done", !.result = "CONTINUE"]
    ELSE LET fix == FixedRoomOf(pr.room[1], pr.charonBotConfig[1])
         IN  IF fix.needsFix
             THEN [pr EXCEPT !.pc = "upsert",
                             !.fixedRoom = Some([fix.fixedRoom EXCEPT !.updatedTime = clock])]
             ELSE [pr EXCEPT !.pc = "done", !.result = "CONTINUE"]

(* The continuation of `await this.getOrCreateBotSpecificRoom(...)`:         *)
(* lines 153-165 in the pre-hook, lines 195-241 in the post-hook.           *)
ReturnRoom(pr, room) ==
    IF pr.ret = "pre"
    THEN [pr EXCEPT !.room = Some(room), !.pc = "host", !.result = "CONTINUE"]
    ELSE FixStage([pr EXCEPT !.room = Some(room)])

(* An exception leaves the hook: the chain run of this message ends. *)
Throw(pr) == [pr EXCEPT !.pc = "failed", !.result = "ERROR"]

----------------------------------------------------------------------------
(* BotManager.setBotStatus, bot-manager.ts lines 96-104: merge the given     *)
(* fields into the entry of botId, creating the entry when there is none.    *)

(* setBotStatus storing the given fields over the defaults. *)
setBotStatus_replaces(map, botId, status) ==
    LET current == [botId |-> botId, platform |-> parseBotId(botId).platform,
                    initialized |-> FALSE, templateRoomId |-> None, error |-> NONE]
    IN  [map EXCEPT ![botId] =
            Some([f \in DOMAIN current |->
                    IF f \in DOMAIN status THEN status[f] ELSE current[f]])]

setBotStatus(map, botId, status) ==
    LET current == IF map[botId] # None THEN map[botId][1]
                   ELSE [botId |-> botId, platform |-> parseBotId(botId).platform,
                         initialized |-> FALSE, templateRoomId |-> None, error |-> NONE]
    IN  [map EXCEPT ![botId] =
            Some([f \in DOMAIN current |->
                    IF f \in DOMAIN status THEN status[f] ELSE current[f]])]

----------------------------------------------------------------------------
(* RoomInterceptor, room.ts lines 50-132: the template room of a bot.        *)

(* Stands for the fixed prefix of the name (CJK characters in the source). *)
S_template == <<"t","e","m","p","l","a","t","e","_">>

(* Lines 88 and 112: the name of the template room of a bot. *)
TemplateRoomName(botId) == S_template \o botId

(* Lines 110-118: the options createTemplateRoomForBot passes to createRoom. *)
TemplateOptions(botId, botConfig) ==
    [botId |-> botId,
     roomName |-> TemplateRoomName(botId),
     roomMasterId |-> parseBotId(botId).selfId,
     guildId |-> UNDEF,
     visibility |-> "template_clone",
     preset |-> botConfig.preset,
     model |-> botConfig.model,
     chatMode |-> IF botConfig.chatMode # NONE THEN botConfig.chatMode ELSE "chat"]

(* Lines 50-69 and 80-89: handleBotStatusUpdate up to the first await. *)
HandleBotStatusUpdateEff(pr, bot) ==
    LET botId == getBotId(bot.platform, bot.selfId)
        botConfig == getBotConfig(botId)
        status == botStatusMap[botId]
    IN  IF botConfig = None \/ ~botConfig[1].enabled THEN Eff(pr)
        ELSE IF status # None /\ status[1].initialized THEN Eff(pr)
        ELSE Eff([pr EXCEPT !.session = [NoSession EXCEPT !.platform = bot.platform,
                                                           !.selfId = bot.selfId],
                            !.botId = botId, !.ret = "template",
                            !.pc = "getTemplateRooms"])

(* Line 73, after createTemplateRoomForBot returned. *)
MarkInitialized(map, botId) == setBotStatus(map, botId, [initialized |-> TRUE])

(* Lines 86-108: the template room exists, or the preset is a character
   preset, or createRoom is called. *)
GetTemplateRoomsEff(pr) ==
    LET botConfig == getBotConfig(pr.botId)[1]
        existingRooms == SortedRooms({r \in rooms : r.roomName = TemplateRoomName(pr.botId)})
        parsed == parsePresetName(botConfig.preset)
    IN  IF existingRooms # << >>
        THEN [Eff(IdleProc) EXCEPT !.botStatusMap =
                MarkInitialized(setBotStatus(botStatusMap, pr.botId,
                                   [templateRoomId |-> Some(existingRooms[1].roomId)]),
                                pr.botId)]
        ELSE IF parsed.source = PresetSource_Character
        THEN [Eff(IdleProc) EXCEPT !.botStatusMap =
                MarkInitialized(MarkInitialized(botStatusMap, pr.botId), pr.botId)]
        ELSE Eff([pr EXCEPT !.pc = "readMaxRoomId"])

(* Lines 120-124 and 73: createRoom returned the new room. *)
TemplateCreatedEff(pr) ==
    [Eff(IdleProc) EXCEPT !.botStatusMap =
        MarkInitialized(setBotStatus(botStatusMap, pr.botId,
                           [templateRoomId |-> Some(pr.newRoom[1].roomId)]),
                        pr.botId)]

(* Lines 125-130 and 73: createRoom threw; the error is caught and recorded. *)
TemplateFailedEff(pr) ==
    [Eff(IdleProc) EXCEPT !.botStatusMap =
        MarkInitialized(setBotStatus(botStatusMap, pr.botId, [error |-> "Error"]),
                        pr.botId)]

(* An exception thrown inside BotManager.createRoom reaches its caller. *)
CreateRoomThrows(pr) ==
    IF pr.ret = "template" THEN TemplateFailedEff(pr) ELSE Eff(Throw(pr))

----------------------------------------------------------------------------
(* ChainInterceptor.configureCharacterPlugin, chain.ts lines 414-450. *)

configureCharacterPlugin(session, presetName) ==
    IF characterConfig = None THEN characterConfig
    ELSE LET guildId == IF session.guildId # UNDEF THEN session.guildId
                        ELSE IF session.channelId # UNDEF THEN session.channelId
                        ELSE S_private
             cc == characterConfig[1]
             applyGroup == IF \E i \in 1..Len(cc.applyGroup) : cc.applyGroup[i] = guildId
                           THEN cc.applyGroup
                           ELSE Append(cc.applyGroup, guildId)
         IN  Some([applyGroup |-> applyGroup,
                   configs |-> [cc.configs EXCEPT ![guildId] = presetName]])

----------------------------------------------------------------------------
(* The pre-hook charon_resolve_bot_room, chain.ts lines 90-166, up to its    *)
(* first await.                                                              *)

(* A guard that forgets the enabled flag. *)
ShouldIntercept_ignoresEnabled(botConfig) ==
    /\ botConfig # None
    /\ ~(botConfig[1].preset = EMPTY /\ botConfig[1].model = "")

(* Lines 97-105: whether the pre-hook handles the message at all. *)
ShouldIntercept(botConfig) ==
    /\ botConfig # None
    /\ botConfig[1].enabled
    /\ ~(botConfig[1].preset = EMPTY /\ botConfig[1].model = "")

(* A pre-hook that stashes the declared chatMode without the default. *)
PreHookBegin_stashesDeclaredMode(pr) ==
    LET session == pr.session
        botId == getBotId(session.platform, session.selfId)
        botConfig == getBotConfig(botId)
    IN  IF ~ShouldIntercept(botConfig)
        THEN Eff([pr EXCEPT !.pc = "host", !.result = "CONTINUE"])
        ELSE
          LET parsed == IF botConfig[1].preset # EMPTY
                        THEN parsePresetName(botConfig[1].preset)
                        ELSE [name |-> EMPTY, source |-> UNDEF]
              stashed == [pr EXCEPT
                            !.botId = botId,
                            !.charonBotConfig = Some(
                               [botId |-> botId,
                                preset |-> parsed.name,
                                model |-> botConfig[1].model,
                                chatMode |-> botConfig[1].chatMode])]
          IN  IF parsed.source = PresetSource_Character
              THEN [Eff([pr EXCEPT !.pc = "stopped", !.result = "STOP"]) EXCEPT
                      !.characterConfig = configureCharacterPlugin(session, parsed.name)]
              ELSE IF pr.roomResolveName # UNDEF
              THEN Eff([stashed EXCEPT !.pc = "findBotSpecificRoom"])
              ELSE Eff([stashed EXCEPT !.pc = "getUserRooms", !.ret = "pre"])

PreHookBegin(pr) ==
    LET session == pr.session
        botId == getBotId(session.platform, session.selfId)
        botConfig == getBotConfig(botId)
    IN  IF ~ShouldIntercept(botConfig)
        THEN Eff([pr EXCEPT !.pc = "host", !.result = "CONTINUE"])
        ELSE
          LET parsed == IF botConfig[1].preset # EMPTY
                        THEN parsePresetName(botConfig[1].preset)
                        ELSE [name |-> EMPTY, source |-> UNDEF]
              stashed == [pr EXCEPT
                            !.botId = botId,
                            !.charonBotConfig = Some(
                               [botId |-> botId,
                                preset |-> parsed.name,
                                model |-> botConfig[1].model,
                                chatMode |-> IF botConfig[1].chatMode # NONE
                                             THEN botConfig[1].chatMode ELSE "chat"])]
          IN  IF parsed.source = PresetSource_Character
              THEN [Eff([pr EXCEPT !.pc = "stopped", !.result = "STOP"]) EXCEPT
                      !.characterConfig = configureCharacterPlugin(session, parsed.name)]
              ELSE IF pr.roomResolveName # UNDEF
              THEN Eff([stashed EXCEPT !.pc = "findBotSpecificRoom"])
              ELSE Eff([stashed EXCEPT !.pc = "getUserRooms", !.ret = "pre"])

(* ChainInterceptor.findBotSpecificRoom, lines 266-286, and the pre-hook's
   lines 144-147 after it. *)
FindBotSpecificRoomEff(pr) ==
    LET named == SortedRooms({r \in rooms : r.roomName = pr.roomResolveName})
        hit == IF named # << >> /\
                  Includes(named[1].roomName, <<"(">> \o pr.botId \o <<")">>)
               THEN Some(named[1]) ELSE None
    IN  Eff([pr EXCEPT !.room = IF hit # None THEN hit ELSE @,
                       !.pc = "host", !.result = "CONTINUE"])

----------------------------------------------------------------------------
(* ChainInterceptor.getOrCreateBotSpecificRoom, chain.ts lines 291-351:      *)
(* one step per awaited database call.                                       *)

isDirect(session) == session.guildId = UNDEF

(* A lookup that goes on to create without looking. *)
GetUserRoomsEff_skipsFind(pr) == Eff([pr EXCEPT !.pc = "readMaxRoomId"])

(* Lines 301-306: the membership rows of the user. *)
GetUserRoomsEff(pr) ==
    LET userRooms == {m \in members : m.userId = pr.session.userId}
    IN  IF userRooms # {}
        THEN Eff([pr EXCEPT !.roomIds = {m.roomId : m \in userRooms}, !.pc = "getRooms"])
        ELSE Eff([pr EXCEPT !.pc = "readMaxRoomId"])

(* A choice that gives up when there is more than one candidate. *)
SelectDirect_uniqueOnly(found, userId) ==
    IF Len(found) = 1 THEN Some(found[1]) ELSE None

(* Lines 335-339: the choice for a direct scope. *)
SelectDirect(found, userId) ==
    OrElse(Find(found, LAMBDA r : r.visibility = "private" /\ r.roomMasterId = userId),
    OrElse(Find(found, LAMBDA r : r.visibility = "private"),
           IF found # << >> THEN Some(found[1]) ELSE None))

(* Lines 326-332: the choice for a group scope. *)
SelectGroup(found, groupRoomIds) ==
    OrElse(Find(found, LAMBDA r : r.roomId \in groupRoomIds /\ r.visibility = "template_clone"),
           Find(found, LAMBDA r : r.roomId \in groupRoomIds))

(* Lines 310-319, and 335-350 for a direct scope. *)
GetRoomsEff(pr) ==
    LET allRooms == SortedRooms({r \in rooms : r.roomId \in pr.roomIds})
        found == Filter(allRooms,
                        LAMBDA r : Includes(r.roomName, <<"(">> \o pr.botId \o <<")">>))
        selectedRoom == SelectDirect(found, pr.session.userId)
    IN  IF ~isDirect(pr.session)
        THEN Eff([pr EXCEPT !.found = found, !.pc = "getGroupRooms"])
        ELSE IF selectedRoom # None
        THEN Eff(ReturnRoom(pr, selectedRoom[1]))
        ELSE Eff([pr EXCEPT !.pc = "readMaxRoomId"])

(* Lines 321-332 and 342-350 for a group scope. *)
GetGroupRoomsEff(pr) ==
    LET groupRooms == {g \in groupMembers :
                          g.groupId = pr.session.guildId /\ g.roomId \in pr.roomIds}
        groupRoomIds == {g.roomId : g \in groupRooms}
        selectedRoom == SelectGroup(pr.found, groupRoomIds)
    IN  IF selectedRoom # None
        THEN Eff(ReturnRoom(pr, selectedRoom[1]))
        ELSE Eff([pr EXCEPT !.pc = "readMaxRoomId"])

----------------------------------------------------------------------------
(* ChainInterceptor.createBotSpecificRoom (chain.ts lines 356-408) and       *)
(* BotManager.createRoom (bot-manager.ts lines 341-413).                     *)

(* chain.ts lines 361-385: the options createBotSpecificRoom passes on. The
   session carries no guild name, so a group room is named after the user too. *)
RoomOptions(session, botId, botConfig) ==
    LET username == IF session.username # UNDEF THEN session.username ELSE session.userId
    IN  [botId |-> botId,
         roomName |-> username \o <<" ">> \o <<"(">> \o botId \o <<")">>,
         roomMasterId |-> session.userId,
         guildId |-> session.guildId,
         visibility |-> IF isDirect(session) THEN "private" ELSE "template_clone",
         preset |-> botConfig.preset,
         model |-> botConfig.model,
         chatMode |-> IF botConfig.chatMode # NONE THEN botConfig.chatMode ELSE "chat"]

(* bot-manager.ts lines 355-377: the row createRoom builds. *)
NewRoom(options, maxRoomId, uuid, now) ==
    [roomId |-> maxRoomId + 1,
     roomName |-> options.roomName,
     roomMasterId |-> options.roomMasterId,
     conversationId |-> generateConversationId(options.botId, uuid),
     preset |-> IF options.preset # EMPTY THEN parsePresetName(options.preset).name
                ELSE EMPTY,
     model |-> options.model,
     chatMode |-> options.chatMode,
     visibility |-> options.visibility,
     password |-> EMPTY,
     autoUpdate |-> FALSE,
     updatedTime |-> now]

(* The options of the createRoom call in progress. *)
CreateOptions(pr) ==
    IF pr.ret = "template" THEN TemplateOptions(pr.botId, getBotConfig(pr.botId)[1])
    ELSE RoomOptions(pr.session, pr.botId, getBotConfig(pr.botId)[1])

(* bot-manager.ts line 412: createRoom returns the new room to its caller. *)
CreateRoomReturns(pr) ==
    IF pr.ret = "template" THEN TemplateCreatedEff(pr)
    ELSE Eff([pr EXCEPT !.pc = "createUserRow"])

(* createRoom numbering every row from an empty table. *)
ReadMaxRoomIdEff_fromZero(pr) ==
    [Eff([pr EXCEPT !.newRoom = Some(NewRoom(CreateOptions(pr), 0,
                                             Uuid(uuidCounter), clock)),
                    !.pc = "createRoomRow"])
     EXCEPT !.uuidCounter = uuidCounter + 1]

(* bot-manager.ts lines 354-377: read the largest roomId, build the row. *)
ReadMaxRoomIdEff(pr) ==
    [Eff([pr EXCEPT !.newRoom = Some(NewRoom(CreateOptions(pr), MaxRoomId(rooms),
                                             Uuid(uuidCounter), clock)),
                    !.pc = "createRoomRow"])
     EXCEPT !.uuidCounter = uuidCounter + 1]

(* bot-manager.ts lines 379-384: database.create('chathub_room', newRoom);
   a row with that primary key makes it throw. *)
CreateRoomRowEff(pr) ==
    IF \E r \in rooms : r.roomId = pr.newRoom[1].roomId
    THEN CreateRoomThrows(pr)
    ELSE [Eff([pr EXCEPT !.pc = "createMemberRow"]) EXCEPT
            !.rooms = rooms \cup {pr.newRoom[1]},
            !.clock = clock + 1,
            !.coreCreated = coreCreated \cup
                {[roomId |-> pr.newRoom[1].roomId,
                  platform |-> pr.session.platform, selfId |-> pr.session.selfId]}]

(* bot-manager.ts lines 386-399: database.create('chathub_room_member', ...). *)
CreateMemberRowEff(pr) ==
    LET newRoom == pr.newRoom[1]
        options == CreateOptions(pr)
        row == [userId |-> newRoom.roomMasterId, roomId |-> newRoom.roomId,
                roomPermission |-> "owner"]
    IN  IF \E m \in members : m.userId = row.userId /\ m.roomId = row.roomId
        THEN CreateRoomThrows(pr)
        ELSE [(IF options.guildId # UNDEF /\ options.visibility # "private"
               THEN Eff([pr EXCEPT !.pc = "createGroupRow"])
               ELSE CreateRoomReturns(pr))
              EXCEPT !.members = members \cup {row}]

(* bot-manager.ts lines 399-412: database.create('chathub_room_group_member', ...). *)
CreateGroupRowEff(pr) ==
    LET newRoom == pr.newRoom[1]
        options == CreateOptions(pr)
        row == [groupId |-> options.guildId, roomId |-> newRoom.roomId,
                roomVisibility |-> options.visibility]
    IN  IF \E g \in groupMembers : g.groupId = row.groupId /\ g.roomId = row.roomId
        THEN CreateRoomThrows(pr)
        ELSE [CreateRoomReturns(pr) EXCEPT !.groupMembers = groupMembers \cup {row}]

(* chain.ts lines 388-407: database.create('chathub_user', ...), whose
   failure is caught, and the return of the new room to the hook. *)
CreateUserRowEff(pr) ==
    LET newRoom == pr.newRoom[1]
        row == [userId |-> pr.session.userId,
                groupId |-> IF isDirect(pr.session) THEN <<"0">> ELSE pr.session.guildId,
                defaultRoomId |-> newRoom.roomId]
        exists == \E u \in users : u.userId = row.userId /\ u.groupId = row.groupId
    IN  [Eff(ReturnRoom(pr, newRoom)) EXCEPT
           !.users = IF exists THEN users ELSE users \cup {row}]

----------------------------------------------------------------------------
(* The post-hook charon_fix_room_auto_update, chain.ts lines 177-251.        *)

(* Line 189 *)
isRoomForBot(room, botId) ==
    StartsWith(room.conversationId, S_bot_ \o botId \o <<"_">>)

(* A post-hook that goes by the declared persona when nothing is stashed. *)
PostHookBegin_withoutStash(pr) ==
    LET botId == getBotId(pr.session.platform, pr.session.selfId)
    IN  IF pr.room = None
        THEN Eff([pr EXCEPT !.pc = "done", !.result = "CONTINUE"])
        ELSE IF ~isRoomForBot(pr.room[1], botId) /\ getBotConfig(botId) # None
        THEN Eff([pr EXCEPT !.botId = botId, !.ret = "post", !.pc = "getUserRooms"])
        ELSE IF pr.charonBotConfig = None
        THEN Eff([pr EXCEPT !.pc = "done", !.result = "CONTINUE"])
        ELSE Eff(FixStage(pr))

(* Lines 178-241, up to the first await. *)
PostHookBegin(pr) ==
    IF pr.charonBotConfig = None \/ pr.room = None
    THEN Eff([pr EXCEPT !.pc = "done", !.result = "CONTINUE"])
    ELSE LET botId == pr.charonBotConfig[1].botId
         IN  IF ~isRoomForBot(pr.room[1], botId) /\ getBotConfig(botId) # None
             THEN Eff([pr EXCEPT !.botId = botId, !.ret = "post", !.pc = "getUserRooms"])
             ELSE Eff(FixStage(pr))

(* An upsert that leaves the context bound to the record as it was. *)
UpsertFixedRoomEff_keepsBinding(pr) ==
    [Eff([pr EXCEPT !.pc = "done", !.result = "CONTINUE"])
     EXCEPT !.rooms = UpsertRoom(rooms, pr.fixedRoom[1]), !.clock = clock + 1]

(* Lines 242-249: database.upsert('chathub_room', [fixedRoom]) and the rebind. *)
UpsertFixedRoomEff(pr) ==
    [Eff([pr EXCEPT !.room = pr.fixedRoom, !.pc = "done", !.result = "CONTINUE"])
     EXCEPT !.rooms = UpsertRoom(rooms, pr.fixedRoom[1]), !.clock = clock + 1]

----------------------------------------------------------------------------
(* The host's own resolve_room step between the two hooks. It is not under   *)
(* the plugin's control: it may keep the binding, bind any stored room,      *)
(* create a room of its own, and (autoUpdate) overwrite preset, model and    *)
(* chatMode of the room it binds with the values of its template.            *)


HostTemplate == [preset |-> <<"s">>, model |-> "hm", chatMode |-> "chat"]

HostRoom(session, maxRoomId, uuid, now) ==
    [roomId |-> maxRoomId + 1,
     roomName |-> <<"r">>,
     roomMasterId |-> session.userId,
     conversationId |-> uuid,
     preset |-> HostTemplate.preset,
     model |-> HostTemplate.model,
     chatMode |-> HostTemplate.chatMode,
     visibility |-> IF isDirect(session) THEN "private" ELSE "template_clone",
     password |-> EMPTY,
     autoUpdate |-> TRUE,
     updatedTime |-> now]

HostAutoUpdate(room) ==
    [room EXCEPT !.preset = HostTemplate.preset, !.model = HostTemplate.model,
                 !.chatMode = HostTemplate.chatMode]

(* The pre-hook is over: its history is no longer needed. *)
ToPost(pr) == [pr EXCEPT !.pc = "post", !.preRuns = 1, !.snapPre = None]

HostKeepEff(pr) == Eff(ToPost(pr))

HostRebindEff(pr, room) ==
    Eff(ToPost([pr EXCEPT !.room = Some(room),
                          !.hostRebound = pr.room = None \/ pr.room[1].roomId # room.roomId]))

HostAutoUpdateEff(pr) ==
    LET bound == HostAutoUpdate(pr.room[1])
    IN  [Eff(ToPost([pr EXCEPT !.room = Some(bound)])) EXCEPT
           !.rooms = UpsertRoom(rooms, bound)]

HostCreateEff(pr) ==
    LET room == HostRoom(pr.session, MaxRoomId(rooms), Uuid(uuidCounter), clock)
    IN  [Eff(ToPost([pr EXCEPT !.room = Some(room), !.hostRebound = TRUE])) EXCEPT
           !.rooms = rooms \cup {room},
           !.members = members \cup {[userId |-> pr.session.userId,
                                      roomId |-> room.roomId,
                                      roomPermission |-> "owner"]},
           !.uuidCounter = uuidCounter + 1]

----------------------------------------------------------------------------
(* BotManager.loadPresets, bot-manager.ts lines 126-250: the preset list.    *)

(* The characters of preset names, in ascending UTF-16 order. *)
CharOrder == <<" ", ",", ":", "a", "b", "c", "e", "h", "k", "l", "n", "r", "t", "u">>

CharCode(c) == CHOOSE i \in 1..Len(CharOrder) : CharOrder[i] = c

(* s < t as JavaScript compares strings. *)
RECURSIVE StringLess(_, _)
StringLess(s, t) ==
    IF t = << >> THEN FALSE
    ELSE IF s = << >> THEN TRUE
    ELSE IF Head(s) = Head(t) THEN StringLess(Tail(s), Tail(t))
    ELSE CharCode(Head(s)) < CharCode(Head(t))

(* Array.prototype.sort() on strings. *)
RECURSIVE SortStrings(_)
SortStrings(names) ==
    IF names = << >> THEN << >>
    ELSE LET rest == SortStrings(Tail(names))
             smaller == SelectSeq(rest, LAMBDA x : StringLess(x, Head(names)))
             others == SelectSeq(rest, LAMBDA x : ~StringLess(x, Head(names)))
         IN  smaller \o <<Head(names)>> \o others

(* Array.prototype.join(sep). *)
RECURSIVE Join(_, _)
Join(names, sep) ==
    IF names = << >> THEN EMPTY
    ELSE IF Len(names) = 1 THEN names[1]
    ELSE names[1] \o sep \o Join(Tail(names), sep)

(* String.prototype.trim(), for spaces. *)
RECURSIVE Trim(_)
Trim(s) ==
    IF s = << >> THEN s
    ELSE IF Head(s) = " " THEN Trim(Tail(s))
    ELSE IF s[Len(s)] = " " THEN Trim(SubSeq(s, 1, Len(s) - 1))
    ELSE s


(* Line 177: preset.split(',')[0].trim() *)
FirstKeyword(preset) == Trim(Split(preset, ",")[1])

(* Lines 167-190: a source that is absent or throws pushes nothing. *)
loadChatLunaPresets(presets, result) ==
    IF ~result.ok THEN presets
    ELSE presets \o [i \in 1..Len(result.value) |->
                        [name |-> S_chatluna \o <<":">> \o FirstKeyword(result.value[i]),
                         source |-> PresetSource_ChatLuna]]

(* Lines 195-250 *)
loadCharacterPresets(presets, result) ==
    IF ~result.ok THEN presets
    ELSE presets \o [i \in 1..Len(result.value) |->
                        [name |-> S_character \o <<":">> \o result.value[i],
                         source |-> PresetSource_Character]]

(* Lines 138-139: presets.map(p => p.name).sort().join(',') *)
PresetKeys(presets) ==
    Join(SortStrings([i \in 1..Len(presets) |-> presets[i].name]), <<",">>)

(* Lines 136-145: the skip-if-unchanged check. *)
Unchanged(oldPresets, presets) == PresetKeys(oldPresets) = PresetKeys(presets)

(* presetCache.get('all') || [] *)
CachedPresets == IF presetCache = None THEN << >> ELSE presetCache[1]

(* What the two sources answer: failure, or a list. The chatluna service
   lists each preset by its keywords; a character preset has any name. *)

Failed == [ok |-> FALSE, value |-> << >>]

Answer(list) == [ok |-> TRUE, value |-> list]

ChatLunaAnswers ==
    {Failed, Answer(<< >>), Answer(<< <<"h">> >>), Answer(<< <<"h">> \o <<",">> \o <<" ">> \o <<"k">> >>)}

CharacterAnswers ==
    {Failed, Answer(<< >>), Answer(<< <<"a">> >>), Answer(<< <<"a">>, <<"b">> >>),
     Answer(<< <<"a">> \o <<",">> \o S_character \o <<":">> \o <<"b">> >>)}

IdleRefresh ==
    [pc |-> "idle",
     presets |-> << >>,          \* local presets
     force |-> FALSE,            \* argument force
     timer |-> FALSE,            \* the caller is the presetLoadTimer callback
     chatluna |-> Failed,        \* history: what the chatluna source answered
     character |-> Failed,       \* history: what the character source answered
     completed |-> FALSE]        \* history: a refresh has completed

(* The loadPresets calls that may be in flight at once. *)
RefreshSlots == {1, 2}

(* A loadPresets that gathers on top of the cached list. *)
LoadPresetsBegin_ontoCache(call, force, answer) ==
    [call EXCEPT !.pc = "loadCharacterPresets",
                 !.presets = loadChatLunaPresets(CachedPresets, answer),
                 !.force = force,
                 !.chatluna = answer]

(* Lines 126-130: const presets = [] and loadChatLunaPresets(presets). *)
LoadPresetsBegin(call, force, answer) ==
    [call EXCEPT !.pc = "loadCharacterPresets",
                 !.presets = loadChatLunaPresets(<< >>, answer),
                 !.force = force,
                 !.chatluna = answer]

(* Lines 126-130: loadPresets up to the call of loadCharacterPresets. *)
LoadPresets(k) ==
    /\ refresh[k].pc = "idle"
    /\ \E force \in BOOLEAN : \E answer \in ChatLunaAnswers :
         refresh' = [refresh EXCEPT ![k] = LoadPresetsBegin(@, force, answer)]
    /\ UNCHANGED <<config, rooms, members, groupMembers, users, uuidCounter, clock,
                   characterConfig, procs, botStatusMap, coreCreated, raceLog,
                   presetCache, plugin, chain, layerConfig, statusCalls, botConfigStore, parseIn, parseOut>>

(* The timeouts set by schedulePresetLoad that are pending although the
   variable presetLoadTimer does not refer to them, by their argument force. *)
UnreferencedCount(pl) == pl.unreferenced[TRUE] + pl.unreferenced[FALSE]

(* index.ts line 145, presetLoadTimer = null: a pending timeout the variable
   referred to can no longer be cleared. *)
ResetPresetLoadTimer(pl) ==
    IF "presetLoadTimer" \in pl.timers
    THEN [pl EXCEPT !.timers = @ \ {"presetLoadTimer"},
                    !.unreferenced[pl.force] = @ + 1]
    ELSE pl

(* Lines 133-150: the character source answered; compare and cache; then the
   continuation of the timer callback, index.ts line 145. *)
LoadPresetsCompletes(k) ==
    /\ refresh[k].pc = "loadCharacterPresets"
    /\ plugin' = IF refresh[k].timer THEN ResetPresetLoadTimer(plugin) ELSE plugin
    /\ UnreferencedCount(plugin') <= MaxUnreferenced
    /\ \E answer \in CharacterAnswers :
         LET presets == loadCharacterPresets(refresh[k].presets, answer)
             skip == ~refresh[k].force /\ Unchanged(CachedPresets, presets)
         IN  /\ presetCache' = IF skip THEN presetCache ELSE Some(presets)
             /\ refresh' = [refresh EXCEPT ![k] = [@ EXCEPT !.pc = "idle",
                                                            !.presets = << >>,
                                                            !.timer = FALSE,
                                                            !.character = answer,
                                                            !.completed = TRUE]]
    /\ UNCHANGED <<config, rooms, members, groupMembers, users, uuidCounter, clock,
                   characterConfig, procs, botStatusMap, coreCreated, raceLog,
                   chain, layerConfig, statusCalls, botConfigStore, parseIn, parseOut>>

----------------------------------------------------------------------------
(* The plugin's life cycle: apply() of index.ts, ChainInterceptor.start,     *)
(* setupChainMiddleware and stop, and ChatLuna's chain running a message     *)
(* through its tasks.                                                        *)

charon_resolve_bot_room == "charon_resolve_bot_room"
charon_fix_room_auto_update == "charon_fix_room_auto_update"
resolve_room == "resolve_room"

(* ChatLuna's chain before the plugin touches it: its own tasks, and the
   pairs (a, b) of tasks where a must run before b. *)
HostChain ==
    [ready |-> FALSE,              \* ctx.chatluna.chatChain is available
     tasks |-> {resolve_room, "request_model"},
     edges |-> {<<resolve_room, "request_model">>},
     order |-> << >>,              \* the order built for the message in flight
     running |-> FALSE,            \* a task of the order is executing
     log |-> << >>]                \* history: the tasks started and ended, in order

(* ChainInterceptor.setupChainMiddleware with both hooks attached before the
   host's step. *)
setupChainMiddleware_bothBefore(ch, middlewares) ==
    IF ~ch.ready THEN [chain |-> ch, middlewares |-> middlewares]
    ELSE [chain |-> [ch EXCEPT
                       !.tasks = @ \cup {charon_resolve_bot_room,
                                         charon_fix_room_auto_update},
                       !.edges = @ \cup {<<charon_resolve_bot_room, resolve_room>>,
                                         <<charon_fix_room_auto_update, resolve_room>>}],
          middlewares |-> middlewares \cup {charon_resolve_bot_room,
                                            charon_fix_room_auto_update}]

(* ChainInterceptor.setupChainMiddleware, chain.ts lines 63-260: the two
   chain.middleware(...) calls, .before('resolve_room') at line 169 and
   .after('resolve_room') at line 253. *)
setupChainMiddleware(ch, middlewares) ==
    IF ~ch.ready THEN [chain |-> ch, middlewares |-> middlewares]
    ELSE [chain |-> [ch EXCEPT
                       !.tasks = @ \cup {charon_resolve_bot_room,
                                         charon_fix_room_auto_update},
                       !.edges = @ \cup {<<charon_resolve_bot_room, resolve_room>>,
                                         <<resolve_room, charon_fix_room_auto_update>>}],
          middlewares |-> middlewares \cup {charon_resolve_bot_room,
                                            charon_fix_room_auto_update}]

(* ChainInterceptor.stop, chain.ts lines 455-502: graph._tasks.delete(name)
   for every saved middleware. *)
stop(ch, middlewares) ==
    IF ~ch.ready THEN ch
    ELSE [ch EXCEPT !.tasks = @ \ middlewares,
                    !.edges = {e \in @ : e[1] \notin middlewares /\ e[2] \notin middlewares}]

(* The timers apply() and ChainInterceptor.start have set when they return:
   index.ts lines 119 (scanTimer), 250 (chatlunaCheckTimer), chain.ts line 54
   (the 5-second fallback). *)
StartTimers == {"fallbackTimer", "scanTimer", "chatlunaCheckTimer"}

(* What manualDisposes clears: index.ts lines 120, 230, 260, 281. *)
ManualDisposes == {"scanTimer", "checkTimer", "chatlunaCheckTimer", "readyTimer"}

LoadedPlugin ==
    [disposed |-> FALSE,
     ready |-> FALSE,              \* the app's ready event has been delivered
     timers |-> StartTimers,       \* the pending timeouts and intervals
     checkCount |-> 0,             \* checkCount of setupCharacterPluginListener
     force |-> FALSE,              \* argument force of the pending presetLoadTimer
     unreferenced |-> [force \in BOOLEAN |-> 0],
                                   \* pending timeouts presetLoadTimer lost
     readyHandler |-> FALSE,       \* readyHandler listens to chatluna_character/ready
     lastReady |-> "none",         \* history: what the last character ready event did
     middlewares |-> {},           \* ChainInterceptor.middlewares (their names)
     late |-> {}]                  \* history: the timers that fired after dispose

(* schedulePresetLoad, index.ts lines 141-147, and scheduleScan, lines 74-77:
   clearTimeout and setTimeout of the same timer. *)
schedulePresetLoad(pl, force) ==
    [pl EXCEPT !.timers = @ \cup {"presetLoadTimer"}, !.force = force]

scheduleScan(pl) == [pl EXCEPT !.timers = @ \cup {"debounceTimer"}]

(* A timer of the plugin fires: it is no longer pending, unless it is an
   interval. *)
Fired(pl, timer, interval) ==
    [pl EXCEPT !.timers = IF interval THEN @ ELSE @ \ {timer},
               !.late = IF pl.disposed THEN @ \cup {timer} ELSE @]

(* tryRegisterBotConfigs, index.ts lines 157-186: false while the character
   service or its botConfig is absent; otherwise setBotConfig for every bot
   that declares a preset or a model. *)
tryRegisterBotConfigs(store) ==
    IF store = None THEN [ok |-> FALSE, store |-> store]
    ELSE LET declaring == {i \in 1..Len(config) :
                              config[i].preset # EMPTY \/ config[i].model # ""}
             cleanPreset(i) == parsePresetName(config[i].preset).name
         IN  [ok |-> TRUE,
              store |-> Some({c \in store[1] :
                                \A i \in declaring : c.botId # config[i].botId}
                             \cup {[botId |-> config[i].botId,
                                    preset |-> IF cleanPreset(i) # EMPTY
                                               THEN cleanPreset(i) ELSE UNDEF,
                                    model |-> config[i].model] : i \in declaring})]

(* setupCharacterPluginListener, index.ts lines 197-233: after a successful
   immediate registration it returns; otherwise it registers readyHandler and
   starts checkTimer. *)
setupCharacterPluginListener(pl, store) ==
    LET immediate == tryRegisterBotConfigs(store)
    IN  IF immediate.ok THEN [plugin |-> pl, store |-> immediate.store]
        ELSE [plugin |-> [pl EXCEPT !.readyHandler = TRUE,
                                    !.timers = @ \cup {"checkTimer"}],
              store |-> store]

LifecycleUnchanged ==
    UNCHANGED <<config, rooms, members, groupMembers, users, uuidCounter, clock,
                characterConfig, procs, botStatusMap, coreCreated, raceLog,
                presetCache, refresh, layerConfig, statusCalls, botConfigStore, parseIn, parseOut>>

(* Event chatluna/ready: chain.ts lines 48-51 and index.ts lines 239-241.
   Koishi removes the listeners of a disposed plugin. *)
ChatLunaReady ==
    /\ ~plugin.disposed
    /\ LET set == setupChainMiddleware([chain EXCEPT !.ready = TRUE], plugin.middlewares)
       IN  /\ chain' = set.chain
           /\ plugin' = schedulePresetLoad([plugin EXCEPT !.middlewares = set.middlewares], FALSE)
    /\ LifecycleUnchanged

(* chain.ts lines 54-57: the fallback timer fires. *)
FallbackTimerFires ==
    /\ "fallbackTimer" \in plugin.timers
    /\ LET set == setupChainMiddleware(chain, plugin.middlewares)
       IN  /\ chain' = set.chain
           /\ plugin' = [Fired(plugin, "fallbackTimer", FALSE) EXCEPT
                           !.middlewares = set.middlewares]
    /\ LifecycleUnchanged

(* Events multi-bot-controller/bots-updated, bot-added, bot-removed:
   index.ts lines 123-125. *)
BotsUpdated ==
    /\ ~plugin.disposed
    /\ plugin' = scheduleScan(plugin)
    /\ UNCHANGED chain
    /\ LifecycleUnchanged

(* Event ready: index.ts lines 126 and 277-282. *)
Ready ==
    /\ ~plugin.disposed
    /\ ~plugin.ready
    /\ plugin' = [scheduleScan(plugin) EXCEPT !.ready = TRUE,
                                               !.timers = @ \cup {"readyTimer"}]
    /\ UNCHANGED chain
    /\ LifecycleUnchanged

(* Event chatluna_character/ready: the character service is present; the
   listener of index.ts lines 213-219 runs when it was registered, then the
   listener of lines 262-264. *)
CharacterReady ==
    /\ ~plugin.disposed
    /\ LET present == IF botConfigStore = None THEN Some({}) ELSE botConfigStore
           attempt == IF plugin.readyHandler THEN tryRegisterBotConfigs(present)
                      ELSE [ok |-> FALSE, store |-> present]
           pl == IF attempt.ok THEN [plugin EXCEPT !.timers = @ \ {"checkTimer"}]
                 ELSE plugin
       IN  /\ botConfigStore' = attempt.store
           /\ plugin' = [schedulePresetLoad(pl, TRUE) EXCEPT
                            !.lastReady = IF attempt.ok THEN "registered" ELSE "skipped"]
    /\ UNCHANGED <<config, rooms, members, groupMembers, users, uuidCounter, clock,
                   characterConfig, procs, botStatusMap, coreCreated, raceLog,
                   presetCache, refresh, chain, layerConfig, statusCalls,
                   parseIn, parseOut>>

(* Event config-updated, index.ts lines 267-271. *)

ConfigUpdated ==
    /\ ~plugin.disposed
    /\ plugin' = schedulePresetLoad(plugin, FALSE)
    /\ UNCHANGED chain
    /\ LifecycleUnchanged

(* The timeouts fire: scanTimer (line 119), debounceTimer (line 76),
   readyTimer (lines 278-280), and presetLoadTimer (lines 143-146), whose
   callback calls loadPresets. *)
ScanTimerFires ==
    /\ \E timer \in {"scanTimer", "debounceTimer"} :
         /\ timer \in plugin.timers
         /\ plugin' = Fired(plugin, timer, FALSE)
    /\ UNCHANGED chain
    /\ LifecycleUnchanged

ReadyTimerFires ==
    /\ "readyTimer" \in plugin.timers
    /\ plugin' = schedulePresetLoad(Fired(plugin, "readyTimer", FALSE), FALSE)
    /\ UNCHANGED chain
    /\ LifecycleUnchanged

PresetLoadTimerFires(k) ==
    /\ refresh[k].pc = "idle"
    /\ \E referenced \in BOOLEAN : \E force \in BOOLEAN :
         /\ IF referenced
            THEN /\ "presetLoadTimer" \in plugin.timers
                 /\ force = plugin.force
                 /\ plugin' = Fired(plugin, "presetLoadTimer", FALSE)
            ELSE /\ plugin.unreferenced[force] > 0
                 /\ plugin' = [plugin EXCEPT
                                 !.unreferenced[force] = @ - 1,
                                 !.late = IF plugin.disposed
                                          THEN @ \cup {"presetLoadTimer"} ELSE @]
         /\ \E answer \in ChatLunaAnswers :
              refresh' = [refresh EXCEPT ![k] =
                            [LoadPresetsBegin(@, force, answer) EXCEPT !.timer = TRUE]]
    /\ UNCHANGED <<config, rooms, members, groupMembers, users, uuidCounter, clock,
                   characterConfig, procs, botStatusMap, coreCreated, raceLog,
                   presetCache, chain, layerConfig, statusCalls, botConfigStore,
                   parseIn, parseOut>>

(* The intervals tick. chatlunaCheckTimer, index.ts lines 244-258: chatluna
   is a required service, so the first tick schedules the load and clears the
   interval. checkTimer, lines 223-228: the interval is cleared by a
   successful registration or by the count. *)
ChatlunaCheckTimerFires ==
    /\ "chatlunaCheckTimer" \in plugin.timers
    /\ plugin' = schedulePresetLoad(Fired(plugin, "chatlunaCheckTimer", FALSE), FALSE)
    /\ UNCHANGED chain
    /\ LifecycleUnchanged

CheckTimerFires ==
    /\ "checkTimer" \in plugin.timers
    /\ LET checkCount == plugin.checkCount + 1
           attempt == tryRegisterBotConfigs(botConfigStore)
       IN  /\ botConfigStore' = attempt.store
           /\ plugin' = [Fired(plugin, "checkTimer",
                               ~attempt.ok /\ checkCount < maxChecks) EXCEPT
                            !.checkCount = checkCount]
    /\ UNCHANGED <<config, rooms, members, groupMembers, users, uuidCounter, clock,
                   characterConfig, procs, botStatusMap, coreCreated, raceLog,
                   presetCache, refresh, chain, layerConfig, statusCalls,
                   parseIn, parseOut>>

(* The dispose handler, index.ts lines 330-351: the interceptors stop, then
   manualDisposes run. *)
Dispose ==
    /\ ~plugin.disposed
    /\ chain' = stop(chain, plugin.middlewares)
    /\ plugin' = [plugin EXCEPT !.disposed = TRUE,
                                !.middlewares = {},
                                !.timers = @ \ ManualDisposes]
    /\ LifecycleUnchanged

(* ChatLuna's chain: the orders of the tasks that respect every registered
   before/after pair. *)
Orders(tasks, edges) ==
    {order \in [1..Cardinality(tasks) -> tasks] :
        /\ \A i, j \in DOMAIN order : i # j => order[i] # order[j]
        /\ \A i, j \in DOMAIN order : <<order[j], order[i]>> \in edges => j < i}

(* A message enters the chain: the order is built from the graph as it is. *)
ChainBegins ==
    /\ chain.ready
    /\ chain.order = << >>
    /\ \E order \in Orders(chain.tasks, chain.edges) :
         chain' = [chain EXCEPT !.order = order, !.log = << >>]
    /\ UNCHANGED plugin
    /\ LifecycleUnchanged

(* The chain calls the next task of the order and awaits it. *)
ChainTaskStarts ==
    /\ chain.order # << >>
    /\ ~chain.running
    /\ chain' = [chain EXCEPT !.running = TRUE,
                              !.log = Append(@, <<"start", Head(chain.order)>>)]
    /\ UNCHANGED plugin
    /\ LifecycleUnchanged

ChainTaskEnds ==
    /\ chain.running
    /\ chain' = [chain EXCEPT !.running = FALSE,
                              !.order = Tail(@),
                              !.log = Append(@, <<"end", Head(chain.order)>>)]
    /\ UNCHANGED plugin
    /\ LifecycleUnchanged

----------------------------------------------------------------------------
(* MemoryInterceptor, memory.ts: the listener of                            *)
(* chatluna-long-memory/init-layer.                                          *)

NoLayer ==
    [session |-> NoSession, userId |-> UNDEF, guildId |-> UNDEF,
     original |-> None]            \* history: the identifiers before the listener ran

(* index.ts line 301 *)
isolateLongMemory == TRUE

(* memory.ts lines 59-84: the listener. *)
InitLayerListener(layer) ==
    LET botId == layer.session.selfId
        Present(id) == id # UNDEF /\ id # EMPTY
    IN  IF ~isolateLongMemory THEN layer
        ELSE IF ~Present(botId) THEN layer
        ELSE [layer EXCEPT
                !.userId = IF Present(@) THEN botId \o <<"_">> \o @ ELSE @,
                !.guildId = IF Present(@) THEN botId \o <<"_">> \o @ ELSE @]

(* The layers the memory plugin may initialise: for a bot of one of two
   platforms, with a user and a group identifier that may be absent or
   empty. *)
Layers ==
    {[session |-> [NoSession EXCEPT !.platform = platform, !.selfId = selfId,
                                    !.userId = userId, !.guildId = guildId],
      userId |-> userId, guildId |-> guildId, original |-> None] :
        platform \in {<<"d">>, <<"e">>}, selfId \in {<<"1">>, <<"2">>, <<"3">>, UNDEF},
        userId \in {<<"a">>, <<"b">>, UNDEF, EMPTY},
        guildId \in {<<"g">>, <<"h">>, UNDEF, EMPTY}}

MemoryUnchanged ==
    UNCHANGED <<config, rooms, members, groupMembers, users, uuidCounter, clock,
                characterConfig, procs, botStatusMap, coreCreated, raceLog,
                presetCache, refresh, plugin, chain, statusCalls, botConfigStore, parseIn, parseOut>>

(* The memory plugin emits chatluna-long-memory/init-layer for a new layer,
   and the listener runs. *)
InitLayer ==
    /\ \E layer \in Layers :
         layerConfig' = [InitLayerListener(layer) EXCEPT
                           !.original = Some([userId |-> layer.userId,
                                              guildId |-> layer.guildId])]
    /\ MemoryUnchanged

----------------------------------------------------------------------------
(* Actions. *)

(* A message arrives while no other is being processed; its pre-hook runs
   up to its first await. *)
ReceiveMessage ==
    /\ \A q \in Slots : procs[q].pc = "idle"
    /\ \E session \in Sessions : \E name \in RoomResolveNames(session) :
         Apply(1, PreHookBegin([IdleProc EXCEPT
                                  !.session = session,
                                  !.roomResolveName = name,
                                  !.snapStart = Some(StoreOf(Eff(IdleProc), IdleProc)),
                                  !.later = session \in raceLog.raced,
                                  !.preRuns = 1]))

(* A second message of the same bot, user and scope arrives while the first
   is being processed. *)
ReceiveOverlapping ==
    /\ procs[1].pc # "idle"
    /\ procs[2].pc = "idle"
    /\ LET e == PreHookBegin([IdleProc EXCEPT
                                !.session = procs[1].session,
                                !.snapStart = Some(StoreOf(Eff(IdleProc), IdleProc)),
                                !.alone = FALSE,
                                !.preRuns = 1])
       IN  /\ procs' = [procs EXCEPT ![1] = [@ EXCEPT !.alone = FALSE],
                                      ![2] = WithSnapshots(procs[2], e)]
           /\ ApplyStore(2, e)

(* The pre-hook is run again on the message context its last run left. *)
RerunPreHook(p) ==
    /\ procs[p].pc = "host"
    /\ procs[p].preRuns = 1
    /\ Apply(p, PreHookBegin([procs[p] EXCEPT !.preRuns = @ + 1]))

FindBotSpecificRoom(p) ==
    /\ procs[p].pc = "findBotSpecificRoom"
    /\ Apply(p, FindBotSpecificRoomEff(procs[p]))

GetUserRooms(p) ==
    /\ procs[p].pc = "getUserRooms"
    /\ Apply(p, GetUserRoomsEff(procs[p]))

GetRooms(p) ==
    /\ procs[p].pc = "getRooms"
    /\ Apply(p, GetRoomsEff(procs[p]))

GetGroupRooms(p) ==
    /\ procs[p].pc = "getGroupRooms"
    /\ Apply(p, GetGroupRoomsEff(procs[p]))

ReadMaxRoomId(p) ==
    /\ procs[p].pc = "readMaxRoomId"
    /\ Cardinality(rooms) < MaxRooms
    /\ Apply(p, ReadMaxRoomIdEff(procs[p]))

CreateRoomRow(p) ==
    /\ procs[p].pc = "createRoomRow"
    /\ Apply(p, CreateRoomRowEff(procs[p]))

CreateMemberRow(p) ==
    /\ procs[p].pc = "createMemberRow"
    /\ Apply(p, CreateMemberRowEff(procs[p]))

CreateGroupRow(p) ==
    /\ procs[p].pc = "createGroupRow"
    /\ Apply(p, CreateGroupRowEff(procs[p]))

CreateUserRow(p) ==
    /\ procs[p].pc = "createUserRow"
    /\ Apply(p, CreateUserRowEff(procs[p]))

HostKeep(p) ==
    /\ procs[p].pc = "host"
    /\ Apply(p, HostKeepEff(procs[p]))

HostRebind(p) ==
    /\ procs[p].pc = "host"
    /\ \E room \in rooms : Apply(p, HostRebindEff(procs[p], room))

HostAutoUpdates(p) ==
    /\ procs[p].pc = "host"
    /\ procs[p].room # None
    /\ Apply(p, HostAutoUpdateEff(procs[p]))

HostCreate(p) ==
    /\ procs[p].pc = "host"
    /\ Cardinality(rooms) < MaxRooms
    /\ Apply(p, HostCreateEff(procs[p]))

PostHook(p) ==
    /\ procs[p].pc = "post"
    /\ LET pr == procs[p]
       IN  Apply(p, PostHookBegin([pr EXCEPT !.postRuns = 1,
                                             !.snapHost = Some(StoreOf(Eff(pr), pr))]))

(* The post-hook is run again on the message context its last run left. *)
RerunPostHook(p) ==
    /\ procs[p].pc = "done"
    /\ procs[p].postRuns = 1
    /\ Apply(p, PostHookBegin([procs[p] EXCEPT !.postRuns = @ + 1]))

UpsertFixedRoom(p) ==
    /\ procs[p].pc = "upsert"
    /\ Apply(p, UpsertFixedRoomEff(procs[p]))

(* A bot-status-updated event: handleBotStatusUpdate runs up to its first
   await. *)
BotStatusUpdated(t) ==
    /\ procs[t].pc = "idle"
    /\ \E bot \in Bots : Apply(t, HandleBotStatusUpdateEff(procs[t], bot))

GetTemplateRooms(t) ==
    /\ procs[t].pc = "getTemplateRooms"
    /\ Apply(t, GetTemplateRoomsEff(procs[t]))

(* The chain run of the message ends: downstream steps, a STOP, or an error. *)
Finish(p) ==
    /\ procs[p].pc \in {"done", "stopped", "failed"}
    /\ Apply(p, Eff(IdleProc))

Step(p) ==
    \/ RerunPreHook(p)
    \/ FindBotSpecificRoom(p)
    \/ GetUserRooms(p)
    \/ GetRooms(p)
    \/ GetGroupRooms(p)
    \/ ReadMaxRoomId(p)
    \/ CreateRoomRow(p)
    \/ CreateMemberRow(p)
    \/ CreateGroupRow(p)
    \/ CreateUserRow(p)
    \/ HostKeep(p)
    \/ HostRebind(p)
    \/ HostAutoUpdates(p)
    \/ HostCreate(p)
    \/ PostHook(p)
    \/ RerunPostHook(p)
    \/ UpsertFixedRoom(p)
    \/ Finish(p)

(* The plugin after apply(), given the character service it found. *)
InitPlugin(store) ==
    LET set == setupCharacterPluginListener(LoadedPlugin, store)
    IN  /\ plugin = set.plugin
        /\ botConfigStore = set.store

InitStore ==
    /\ rooms = {}
    /\ members = {}
    /\ groupMembers = {}
    /\ users = {}
    /\ uuidCounter = 0
    /\ clock = 0
    /\ coreCreated = {}
    /\ characterConfig = Some([applyGroup |-> << >>,
                               configs |-> [k \in {<<"g">>, <<"p">>, S_private} |-> UNDEF]])
    /\ procs = [p \in Slots \cup TemplateSlots |-> IdleProc]
    /\ botStatusMap = [botId \in BotIds |-> None]
    /\ raceLog = [raced |-> {}, bound |-> {}]
    /\ presetCache = None
    /\ refresh = [k \in RefreshSlots |-> IdleRefresh]
    /\ layerConfig = NoLayer
    /\ statusCalls = << >>

Init ==
    /\ config \in {<<c, SecondBotConfig>> : c \in BotPersonaConfigs(getBotId(<<"d">>, <<"1">>))}
    /\ InitStore
    /\ InitPlugin(None)
    /\ chain = HostChain
    /\ parseIn = EMPTY
    /\ parseOut = None

(* Messages are processed one at a time. *)
Next ==
    \/ ReceiveMessage
    \/ \E p \in Slots : Step(p)

Spec == Init /\ [][Next]_vars

----------------------------------------------------------------------------
(* Messages, one at a time, while bots come online: the status-event task    *)
(* runs concurrently with the message in flight. The host step keeps the     *)
(* binding of the pre-hook.                                                  *)

TemplateStep(t) ==
    \/ BotStatusUpdated(t)
    \/ GetTemplateRooms(t)
    \/ ReadMaxRoomId(t)
    \/ CreateRoomRow(t)
    \/ CreateMemberRow(t)

MessageStep(p) ==
    \/ GetUserRooms(p)
    \/ GetRooms(p)
    \/ GetGroupRooms(p)
    \/ ReadMaxRoomId(p)
    \/ CreateRoomRow(p)
    \/ CreateMemberRow(p)
    \/ CreateGroupRow(p)
    \/ CreateUserRow(p)
    \/ HostKeep(p)
    \/ PostHook(p)
    \/ UpsertFixedRoom(p)
    \/ Finish(p)

ReceiveUnnamed ==
    /\ \A q \in Slots : procs[q].pc = "idle"
    /\ \E session \in Sessions :
         Apply(1, PreHookBegin([IdleProc EXCEPT
                                  !.session = session,
                                  !.snapStart = Some(StoreOf(Eff(IdleProc), IdleProc)),
                                  !.later = session \in raceLog.raced,
                                  !.preRuns = 1]))

TemplateConfigs(botId) ==
    {[botId |-> botId, enabled |-> TRUE, preset |-> S_chatluna \o <<":">> \o <<"h">>,
      model |-> "m", chatMode |-> NONE],
     [botId |-> botId, enabled |-> TRUE, preset |-> S_character \o <<":">> \o <<"k">>,
      model |-> "m", chatMode |-> NONE],
     [botId |-> botId, enabled |-> TRUE,
      preset |-> S_character \o <<":">> \o <<"k">> \o <<":">> \o <<"x">>,
      model |-> "", chatMode |-> NONE],
     [botId |-> botId, enabled |-> TRUE, preset |-> EMPTY, model |-> "",
      chatMode |-> "plugin"],
     [botId |-> botId, enabled |-> FALSE, preset |-> <<"h">>, model |-> "m",
      chatMode |-> NONE]}

InitTemplate ==
    /\ config \in {<<c, SecondBotConfig>> : c \in TemplateConfigs(getBotId(<<"d">>, <<"1">>))}
    /\ InitStore
    /\ InitPlugin(None)
    /\ chain = HostChain
    /\ parseIn = EMPTY
    /\ parseOut = None

NextTemplate ==
    \/ ReceiveUnnamed
    \/ \E p \in Slots : MessageStep(p)
    \/ TemplateStep(3)

SpecTemplate == InitTemplate /\ [][NextTemplate]_vars

----------------------------------------------------------------------------
(* The preset list on its own: one refresh after the other, each source      *)
(* answering anew every time.                                                *)

InitCatalog ==
    /\ config = <<SecondBotConfig>>
    /\ InitStore
    /\ InitPlugin(None)
    /\ chain = HostChain
    /\ parseIn = EMPTY
    /\ parseOut = None

NextCatalog ==
    \/ LoadPresets(1)
    \/ LoadPresetsCompletes(1)

SpecCatalog == InitCatalog /\ [][NextCatalog]_vars

----------------------------------------------------------------------------
(* The life cycle on its own: the plugin is loaded before or after ChatLuna  *)
(* became ready; events, timers and the dispose interleave, up to the end of *)
(* the first preset load.                                                    *)

InitLifecycle ==
    /\ config = <<SecondBotConfig>>
    /\ InitStore
    /\ InitPlugin(None)
    /\ chain \in {[HostChain EXCEPT !.ready = ready] : ready \in BOOLEAN}
    /\ parseIn = EMPTY
    /\ parseOut = None

NextLifecycle ==
    \/ ChatLunaReady
    \/ FallbackTimerFires
    \/ BotsUpdated
    \/ Ready
    \/ CharacterReady
    \/ ConfigUpdated
    \/ ScanTimerFires
    \/ ReadyTimerFires
    \/ PresetLoadTimerFires(1)
    \/ ChatlunaCheckTimerFires
    \/ CheckTimerFires
    \/ Dispose

SpecLifecycle == InitLifecycle /\ [][NextLifecycle]_vars

----------------------------------------------------------------------------
(* The refresh triggers on their own: every trigger re-arms the              *)
(* presetLoadTimer, whose callback starts a loadPresets call that completes  *)
(* when the character source answers.                                        *)

NextTriggers ==
    \/ CharacterReady
    \/ ConfigUpdated
    \/ \E k \in RefreshSlots : PresetLoadTimerFires(k) \/ LoadPresetsCompletes(k)

SpecTriggers == InitCatalog /\ [][NextTriggers]_vars

----------------------------------------------------------------------------
(* The chain on its own: the hooks are registered and removed while          *)
(* messages run through the chain.                                           *)

NextChain ==
    \/ ChatLunaReady
    \/ FallbackTimerFires
    \/ Dispose
    \/ ChainBegins
    \/ ChainTaskStarts
    \/ ChainTaskEnds

SpecChain == InitLifecycle /\ [][NextChain]_vars

----------------------------------------------------------------------------
(* The memory layers on their own. *)

InitMemory ==
    /\ config = <<SecondBotConfig>>
    /\ InitStore
    /\ InitPlugin(None)
    /\ chain = HostChain
    /\ parseIn = EMPTY
    /\ parseOut = None

NextMemory == InitLayer

SpecMemory == InitMemory /\ [][NextMemory]_vars

----------------------------------------------------------------------------
(* The preset list under concurrent loadPresets calls.                       *)

NextRefresh ==
    \E k \in RefreshSlots : LoadPresets(k) \/ LoadPresetsCompletes(k)

SpecRefresh == InitCatalog /\ [][NextRefresh]_vars

----------------------------------------------------------------------------
(* Overlapping messages: a second message of the same bot, user and scope    *)
(* may arrive while the first is in flight, and their steps interleave. The  *)
(* host step keeps the binding of the pre-hook, with or without autoUpdate.  *)

InitRace ==
    /\ config = <<[botId |-> getBotId(<<"d">>, <<"1">>), enabled |-> TRUE,
                   preset |-> S_chatluna \o <<":">> \o <<"h">>, model |-> "m",
                   chatMode |-> NONE],
                  SecondBotConfig>>
    /\ InitStore
    /\ InitPlugin(None)
    /\ chain = HostChain
    /\ parseIn = EMPTY
    /\ parseOut = None

NextRace ==
    \/ ReceiveUnnamed
    \/ ReceiveOverlapping
    \/ \E p \in Slots : MessageStep(p)
    \/ \E p \in Slots : HostAutoUpdates(p)

SpecRace == InitRace /\ [][NextRace]_vars

----------------------------------------------------------------------------
(* Vocabulary of the properties below. *)

(* A raw preset name split at its FIRST separator only: the known source
   before it and the whole remainder, else the default source and the whole
   string. *)
FirstSeparatorSplit(raw) ==
    LET i == IndexFrom(raw, ":", 1)
        prefix == SubSeq(raw, 1, i - 1)
    IN  IF i > 0 /\ prefix \in {S_chatluna, S_character}
        THEN [name |-> SubSeq(raw, i + 1, Len(raw)), source |-> prefix]
        ELSE [name |-> raw, source |-> S_chatluna]

(* The identity a message is for: platform:selfId. *)
IdentityOf(session) == session.platform \o <<":">> \o session.selfId

(* bot_<identityId>_ *)
KeyPrefix(identityId) == S_bot_ \o identityId \o <<"_">>

(* The persona declared for the identity of a message, None if there is none. *)
DeclaredOf(session) ==
    LET hits == {i \in 1..Len(config) : config[i].botId = IdentityOf(session)}
    IN  IF hits = {} THEN None
        ELSE Some(config[CHOOSE i \in hits : \A j \in hits : i <= j])

(* A declared preset with its source prefix removed. *)
DeclaredPresetName(raw) == IF raw = EMPTY THEN EMPTY ELSE FirstSeparatorSplit(raw).name

CreatePcs == {"readMaxRoomId", "createRoomRow", "createMemberRow", "createGroupRow",
              "createUserRow"}

SameStore(a, b) ==
    /\ a.rooms = b.rooms
    /\ a.members = b.members
    /\ a.groupMembers = b.groupMembers
    /\ a.users = b.users

CurrentStore(pr) == StoreOf(Eff(pr), pr)

----------------------------------------------------------------------------
(* C1 *)

C1_Applies(pr) ==
    /\ pr.pc = "done"
    /\ pr.postRuns >= 1
    /\ pr.room # None
    /\ LET declared == DeclaredOf(pr.session)
       IN  /\ declared # None
           /\ declared[1].enabled
           /\ declared[1].preset # EMPTY
           /\ declared[1].model # ""
           /\ FirstSeparatorSplit(declared[1].preset).source # PresetSource_Character
           /\ FirstSeparatorSplit(declared[1].preset).name # EMPTY

(* C1: for an enabled identity whose declared preset resolves (non-character
   source) to a non-empty name P and whose declared model M is non-empty,
   whatever the host step did in between, the record bound after the post-hook
   has preset = P and model = M. *)
C1_BoundRecordCarriesDeclaredPersona ==
    \A p \in Slots :
        C1_Applies(procs[p]) =>
            LET declared == DeclaredOf(procs[p].session)[1]
            IN  /\ procs[p].room[1].preset = FirstSeparatorSplit(declared.preset).name
                /\ procs[p].room[1].model = declared.model

----------------------------------------------------------------------------
(* C2 *)

C2_Applies(pr) ==
    /\ pr.pc = "done"
    /\ pr.postRuns >= 1
    /\ pr.charonBotConfig # None
    /\ pr.hostRebound
    /\ pr.snapHost[1].room # None
    /\ ~StartsWith(pr.snapHost[1].room[1].conversationId, KeyPrefix(IdentityOf(pr.session)))

(* C2: if after the pre-hook stashed context for identity I the host step
   rebinds the message to a record whose conversationId does not start with
   bot_<I>_, then when the post-hook returns the message is bound to a record
   whose conversationId does start with bot_<I>_. *)
C2_PostHookRebindsToOwnRecord ==
    \A p \in Slots :
        C2_Applies(procs[p]) =>
            /\ procs[p].room # None
            /\ StartsWith(procs[p].room[1].conversationId,
                          KeyPrefix(IdentityOf(procs[p].session)))

----------------------------------------------------------------------------
(* C3 *)

(* C3: a second run of the post-hook with the same stashed context on the
   context its first run left writes nothing to the store, creates no record
   and leaves the bound record and every stored record unchanged. *)
C3_PostHookIdempotent ==
    \A p \in Slots :
        procs[p].postRuns = 2 =>
            /\ procs[p].pc \notin CreatePcs \cup {"upsert", "failed"}
            /\ CurrentStore(procs[p]) = procs[p].snapPost[1]

(* The second run completed after a first run that repaired the bound record. *)
C3_Witness ==
    \E p \in Slots :
        /\ procs[p].postRuns = 2
        /\ procs[p].pc = "done"
        /\ procs[p].room # None
        /\ procs[p].snapPost[1].room # procs[p].snapHost[1].room

----------------------------------------------------------------------------
(* C4 *)

C4_Applies(pr) ==
    /\ pr.pc = "done"
    /\ pr.postRuns >= 1
    /\ pr.charonBotConfig # None
    /\ pr.charonBotConfig[1].preset = EMPTY
    /\ pr.charonBotConfig[1].model # ""
    /\ pr.room # None

(* C4: with an empty stashed preset and a non-empty stashed model M, the
   post-hook leaves the preset of the bound record and of every stored record
   as it was when the post-hook started, and the record bound afterwards has
   model = M. *)
C4_EmptyPresetNeverOverwritten ==
    \A p \in Slots :
        C4_Applies(procs[p]) =>
            LET pr == procs[p]
                before == pr.snapHost[1]
                known == before.rooms \cup {before.room[1]}
            IN  /\ pr.room[1].model = pr.charonBotConfig[1].model
                /\ \A o \in known :
                       /\ o.roomId = pr.room[1].roomId => pr.room[1].preset = o.preset
                       /\ \A r \in rooms : r.roomId = o.roomId => r.preset = o.preset

(* The host had overwritten preset and model of the bound record; the
   post-hook put the model back and kept the host's preset. *)
C4_Witness ==
    \E p \in Slots :
        /\ C4_Applies(procs[p])
        /\ procs[p].snapHost[1].room[1].preset = HostTemplate.preset
        /\ procs[p].snapHost[1].room[1].model # procs[p].charonBotConfig[1].model
        /\ procs[p].room[1].preset = HostTemplate.preset
        /\ procs[p].room[1].model = procs[p].charonBotConfig[1].model

----------------------------------------------------------------------------
(* C5 *)

(* No identity is configured for the message, or it is disabled, or it
   declares neither a preset nor a model. *)
PassThroughCase(session) ==
    LET declared == DeclaredOf(session)
    IN  \/ declared = None
        \/ ~declared[1].enabled
        \/ declared[1].preset = EMPTY /\ declared[1].model = ""

(* C5: in the pass-through case the pre-hook returns CONTINUE with no record
   bound and nothing stashed, leaves the store as the message found it, and
   neither hook enters the create path or fails. *)
C5_PassThroughWhenNotConfigured ==
    \A p \in Slots :
        (procs[p].pc # "idle" /\ PassThroughCase(procs[p].session)) =>
            /\ procs[p].pc \in {"host", "post", "done"}
            /\ procs[p].charonBotConfig = None
            /\ procs[p].pc = "host" =>
                   /\ procs[p].result = "CONTINUE"
                   /\ procs[p].room = None
                   /\ CurrentStore(procs[p]) = procs[p].snapStart[1]

(* The pre-hook returned for a message of a disabled identity while the
   store already held records. *)
C5_Witness ==
    \E p \in Slots :
        /\ procs[p].pc = "host"
        /\ DeclaredOf(procs[p].session) # None
        /\ ~DeclaredOf(procs[p].session)[1].enabled
        /\ procs[p].result = "CONTINUE"

----------------------------------------------------------------------------
(* C6 *)

(* Nothing in the store the message found can be a record of (identity, user,
   scope): the user is a member of no record that carries the identity in its
   key or its name (and, for a group scope, is associated with the group). *)
C6_NoCandidate(pr) ==
    LET st == pr.snapStart[1]
        identityId == IdentityOf(pr.session)
        mine == {r \in st.rooms :
                   /\ \E m \in st.members :
                          m.userId = pr.session.userId /\ m.roomId = r.roomId
                   /\ \/ StartsWith(r.conversationId, KeyPrefix(identityId))
                      \/ Includes(r.roomName, <<"(">> \o identityId \o <<")">>)}
    IN  IF pr.session.guildId = UNDEF THEN mine = {}
        ELSE \A r \in mine : ~\E g \in st.groupMembers :
                 g.groupId = pr.session.guildId /\ g.roomId = r.roomId

C6_Applies(pr) ==
    /\ pr.pc = "host"
    /\ pr.preRuns = 1
    /\ pr.charonBotConfig # None
    /\ pr.roomResolveName = UNDEF
    /\ C6_NoCandidate(pr)

(* C6: when the find step yields nothing, the pre-hook creates exactly one
   conversation record: private for a direct scope, template_clone for a group
   scope, mastered by the user, preset = the declared preset with its source
   prefix removed, model = the declared model; and binds it. *)
C6_CreatesOneRecordWhenNoneFound ==
    \A p \in Slots :
        C6_Applies(procs[p]) =>
            LET pr == procs[p]
                declared == DeclaredOf(pr.session)[1]
            IN  /\ pr.room # None
                /\ pr.room[1] \notin pr.snapStart[1].rooms
                /\ rooms = pr.snapStart[1].rooms \cup {pr.room[1]}
                /\ pr.room[1].visibility =
                       (IF pr.session.guildId = UNDEF THEN "private" ELSE "template_clone")
                /\ pr.room[1].roomMasterId = pr.session.userId
                /\ pr.room[1].preset = DeclaredPresetName(declared.preset)
                /\ pr.room[1].model = declared.model

----------------------------------------------------------------------------
(* C7 *)

(* C7: every conversation record the core created, for a user or as the
   template of a bot, has conversationId = bot_<identityId>_<uuid>, where
   identityId is platform:selfId of the bot it was created for. *)
C7_CoreCreatedKeyEmbedsIdentity ==
    \A c \in coreCreated : \A r \in rooms :
        r.roomId = c.roomId =>
            \E n \in 0..uuidCounter :
                r.conversationId =
                    S_bot_ \o c.platform \o <<":">> \o c.selfId \o <<"_">> \o Uuid(n)

(* The store holds a template record and a per-user record, both created by
   the core. *)
C7_Witness ==
    \E c1 \in coreCreated : \E c2 \in coreCreated : \E r1 \in rooms : \E r2 \in rooms :
        /\ r1.roomId = c1.roomId
        /\ r2.roomId = c2.roomId
        /\ r1.roomName = TemplateRoomName(getBotId(c1.platform, c1.selfId))
        /\ r2.roomMasterId \in UserIds

----------------------------------------------------------------------------
(* C8 *)

(* C8: a second run of the pre-hook on the same message, with no other
   message in between, never enters the create path, leaves every table as the
   first run left it and binds the record the first run bound. *)
C8_PreHookIdempotent ==
    \A p \in Slots :
        procs[p].preRuns = 2 =>
            /\ procs[p].pc \notin CreatePcs \cup {"failed"}
            /\ SameStore(CurrentStore(procs[p]), procs[p].snapPre[1])
            /\ procs[p].pc = "host" => procs[p].room = procs[p].snapPre[1].room

(* The second run returned with the record the first run had created. *)
C8_Witness ==
    \E p \in Slots :
        /\ procs[p].preRuns = 2
        /\ procs[p].pc = "host"
        /\ procs[p].room # None
        /\ procs[p].room[1] \notin procs[p].snapStart[1].rooms

----------------------------------------------------------------------------
(* C9 *)

(* C9: once two overlapping messages of one (bot, user, scope) have both
   gone through the create path, every later message of that triple that is
   processed on its own never enters the create path, and all of them bind one
   and the same record. *)
C9_ConvergesAfterRace ==
    /\ \A x \in raceLog.bound : \A y \in raceLog.bound :
           x.session = y.session => x.roomId = y.roomId
    /\ \A p \in Slots :
           (procs[p].pc # "idle" /\ procs[p].later /\ procs[p].alone) =>
               procs[p].pc \notin CreatePcs \cup {"failed"}

(* The race left two records of the same bot and user, and a later message
   of that user went through both hooks on its own. *)
C9_Witness ==
    \E p \in Slots : \E r1 \in rooms : \E r2 \in rooms :
        /\ procs[p].pc = "done"
        /\ procs[p].later
        /\ procs[p].alone
        /\ procs[p].room # None
        /\ r1.roomId # r2.roomId
        /\ {r1.roomId, r2.roomId} \subseteq {c.roomId : c \in coreCreated}
        /\ r1.roomMasterId = procs[p].session.userId
        /\ r2.roomMasterId = procs[p].session.userId
        /\ StartsWith(r1.conversationId, KeyPrefix(IdentityOf(procs[p].session)))
        /\ StartsWith(r2.conversationId, KeyPrefix(IdentityOf(procs[p].session)))

----------------------------------------------------------------------------
(* C11 *)

(* The namespaced entries of what a source answered. *)
EntriesOf(prefix, answer) ==
    [i \in 1..Len(answer.value) |->
        prefix \o <<":">> \o (IF prefix = S_chatluna THEN FirstKeyword(answer.value[i])
                              ELSE answer.value[i])]

CachedNames == [i \in 1..Len(CachedPresets) |-> CachedPresets[i].name]

(* C11: after a refresh in which one source failed and the other succeeded,
   the cached list holds exactly the entries of the source that succeeded;
   after a refresh in which both succeeded, it holds exactly the entries of
   both, each once. *)
C11_RefreshReplacesList ==
    (refresh[1].pc = "idle" /\ refresh[1].completed) =>
        /\ (refresh[1].chatluna.ok /\ ~refresh[1].character.ok) =>
               CachedNames = EntriesOf(S_chatluna, refresh[1].chatluna)
        /\ (~refresh[1].chatluna.ok /\ refresh[1].character.ok) =>
               CachedNames = EntriesOf(S_character, refresh[1].character)
        /\ (refresh[1].chatluna.ok /\ refresh[1].character.ok) =>
               CachedNames = EntriesOf(S_chatluna, refresh[1].chatluna)
                             \o EntriesOf(S_character, refresh[1].character)

----------------------------------------------------------------------------
(* C12 *)

(* The place of an event in the log of the chain run, 0 when it is absent. *)
LogIndex(event) ==
    IF \E i \in DOMAIN chain.log : chain.log[i] = event
    THEN CHOOSE i \in DOMAIN chain.log : chain.log[i] = event
    ELSE 0

(* The tasks of the chain run in flight: those run and those still to run. *)
RunTasks ==
    {chain.log[i][2] : i \in DOMAIN chain.log}
    \cup {chain.order[i] : i \in DOMAIN chain.order}

(* C12: in every chain run that holds the hooks, the pre-hook has ended when
   the host's resolve_room starts, and resolve_room has ended when the
   post-hook starts. *)
C12_HooksAroundResolveRoom ==
    /\ (charon_resolve_bot_room \in RunTasks /\ LogIndex(<<"start", resolve_room>>) > 0) =>
           /\ LogIndex(<<"end", charon_resolve_bot_room>>) > 0
           /\ LogIndex(<<"end", charon_resolve_bot_room>>)
                  < LogIndex(<<"start", resolve_room>>)
    /\ LogIndex(<<"start", charon_fix_room_auto_update>>) > 0 =>
           /\ LogIndex(<<"end", resolve_room>>) > 0
           /\ LogIndex(<<"end", resolve_room>>)
                  < LogIndex(<<"start", charon_fix_room_auto_update>>)

(* A chain run went through the pre-hook, resolve_room and the post-hook. *)
C12_Witness ==
    /\ LogIndex(<<"end", charon_resolve_bot_room>>) > 0
    /\ LogIndex(<<"end", resolve_room>>) > 0
    /\ LogIndex(<<"end", charon_fix_room_auto_update>>) > 0

----------------------------------------------------------------------------
(* C13 *)

(* C13: once the dispose handler has run, no hook of the plugin is a task of
   the chain, and no timer of the plugin has fired after the dispose. *)
C13_NothingAfterDispose ==
    plugin.disposed =>
        /\ chain.tasks \cap {charon_resolve_bot_room, charon_fix_room_auto_update} = {}
        /\ plugin.late = {}

----------------------------------------------------------------------------
(* C14, C15 *)

(* The record the context held when the hook in which the task is began. *)
BoundBeforeHook(pr) ==
    IF pr.ret = "post" THEN pr.snapHost[1].room ELSE pr.snapStart[1].room

(* C14: when a create of the store fails inside a hook, the hook ends with
   the error, the context holds the record it held before the hook, the
   hook is not run again, and the runtime status of the bot carries the
   error text. *)
C14_FailureRecordedInStatus ==
    \A p \in Slots :
        procs[p].pc = "failed" =>
            /\ procs[p].result = "ERROR"
            /\ procs[p].room = BoundBeforeHook(procs[p])
            /\ procs[p].preRuns + procs[p].postRuns = 1
            /\ botStatusMap[procs[p].botId] # None
            /\ botStatusMap[procs[p].botId][1].error # NONE

(* C15: a create that meets a row with the same key does not make the hook
   fail: every message whose hook went through createRoom leaves it with a
   record bound. *)
C15_DuplicateCreateIsSuccess ==
    \A p \in Slots :
        procs[p].newRoom # None =>
            /\ procs[p].pc # "failed"
            /\ procs[p].pc \in {"host", "post", "done"} => procs[p].room # None

----------------------------------------------------------------------------
(* C16 *)

(* The scope id of a message: its group, else its channel, else "private". *)
ScopeId(session) ==
    IF session.guildId # UNDEF THEN session.guildId
    ELSE IF session.channelId # UNDEF THEN session.channelId
    ELSE S_private

C16_Applies(pr) ==
    /\ pr.pc # "idle"
    /\ LET declared == DeclaredOf(pr.session)
       IN  /\ declared # None
           /\ declared[1].enabled
           /\ declared[1].preset # EMPTY
           /\ FirstSeparatorSplit(declared[1].preset).source = PresetSource_Character

(* C16: for an enabled identity whose declared preset resolves to the
   character source, the pre-hook signals STOP, enters no create, binds no
   record and stashes no context, and the character plugin's configuration
   has the scope id of the message in its apply list and, as the preset of
   that scope, the resolved preset name. *)
C16_CharacterPresetStops ==
    \A p \in Slots :
        C16_Applies(procs[p]) =>
            LET pr == procs[p]
                scope == ScopeId(pr.session)
                applyGroup == characterConfig[1].applyGroup
            IN  /\ pr.pc = "stopped"
                /\ pr.result = "STOP"
                /\ pr.newRoom = None
                /\ pr.room = None
                /\ pr.charonBotConfig = None
                /\ \E i \in DOMAIN applyGroup : applyGroup[i] = scope
                /\ characterConfig[1].configs[scope]
                       = FirstSeparatorSplit(DeclaredOf(pr.session)[1].preset).name

----------------------------------------------------------------------------
(* C17 *)

(* The stored records of the given name whose key embeds the identity id. *)
NamedOwn(pr) ==
    {r \in rooms : /\ r.roomName = pr.roomResolveName
                   /\ StartsWith(r.conversationId, KeyPrefix(IdentityOf(pr.session)))}

(* C17: when the pre-hook of an intercepted message that names a target
   record has returned, a record of the identity is bound: one of that name
   whose key embeds the identity id if the store holds one, else the record
   that the find-or-create step gives. *)
C17_NamedTargetBindsOrFallsThrough ==
    \A p \in Slots :
        LET pr == procs[p]
        IN  (pr.pc = "host" /\ pr.roomResolveName # UNDEF /\ pr.charonBotConfig # None) =>
                /\ pr.result = "CONTINUE"
                /\ pr.room # None
                /\ StartsWith(pr.room[1].conversationId, KeyPrefix(IdentityOf(pr.session)))
                /\ NamedOwn(pr) # {} => pr.room[1] \in NamedOwn(pr)

----------------------------------------------------------------------------
(* C18 *)

(* The records the find step is to choose from: those the user is a member
   of whose key embeds the identity id, in the store the message found. *)
C18_Candidates(pr) ==
    LET st == pr.snapStart[1]
    IN  {r \in st.rooms :
           /\ \E m \in st.members : m.userId = pr.session.userId /\ m.roomId = r.roomId
           /\ StartsWith(r.conversationId, KeyPrefix(IdentityOf(pr.session)))}

(* The most preferred candidates; empty when a record is to be created. *)
C18_Preferred(pr) ==
    LET st == pr.snapStart[1]
        candidates == C18_Candidates(pr)
        ofGroup == {r \in candidates :
                      \E g \in st.groupMembers :
                          g.groupId = pr.session.guildId /\ g.roomId = r.roomId}
        scoped == {r \in ofGroup : r.visibility = "template_clone"}
        private == {r \in candidates : r.visibility = "private"}
        mastered == {r \in private : r.roomMasterId = pr.session.userId}
    IN  IF pr.session.guildId # UNDEF
        THEN IF scoped # {} THEN scoped ELSE ofGroup
        ELSE IF mastered # {} THEN mastered
        ELSE IF private # {} THEN private
        ELSE candidates

(* C18: when the pre-hook of an intercepted message without a target name
   has returned, the record bound is one of the most preferred candidates,
   and it is a new record exactly when there is no candidate to prefer. *)
C18_FindSelectsByKeyAndScope ==
    \A p \in Slots :
        LET pr == procs[p]
        IN  (/\ pr.pc = "host" /\ pr.preRuns = 1 /\ pr.charonBotConfig # None
             /\ pr.roomResolveName = UNDEF) =>
                /\ pr.room # None
                /\ IF C18_Preferred(pr) = {}
                   THEN pr.room[1] \notin pr.snapStart[1].rooms
                   ELSE pr.room[1] \in C18_Preferred(pr)

----------------------------------------------------------------------------
(* C19 *)

(* C19: when the post-hook has completed for a message with stashed context
   and a bound record, the runtime status of the bot is initialized and its
   currentPreset and currentModel are those of the bound record. *)
C19_StatusFollowsFinalRecord ==
    \A p \in Slots :
        LET pr == procs[p]
        IN  (pr.pc = "done" /\ pr.postRuns >= 1 /\ pr.charonBotConfig # None
             /\ pr.room # None) =>
                LET status == botStatusMap[pr.charonBotConfig[1].botId]
                IN  /\ status # None
                    /\ status[1].initialized
                    /\ {"currentPreset", "currentModel"} \subseteq DOMAIN status[1]
                    /\ status[1].currentPreset = pr.room[1].preset
                    /\ status[1].currentModel = pr.room[1].model

----------------------------------------------------------------------------
(* C20 *)

(* The post-hook has begun on a context without stashed context. *)
C20_Applies(pr) ==
    /\ pr.postRuns >= 1
    /\ pr.charonBotConfig = None

(* C20: on a context without stashed context the post-hook returns at once,
   without a read or a write of the store: no record is created, the store
   and the record bound by the host are what they were when it began. *)
C20_PostHookNoOpWithoutStash ==
    \A p \in Slots :
        C20_Applies(procs[p]) =>
            LET pr == procs[p]
            IN  /\ pr.pc = "done"
                /\ pr.result = "CONTINUE"
                /\ pr.newRoom = None
                /\ pr.fixedRoom = None
                /\ pr.room = pr.snapHost[1].room
                /\ SameStore(pr.snapHost[1], CurrentStore(pr))

(* The post-hook ran without stashed context on a record bound by the host
   for a bot that has a declared (disabled) persona. *)
C20_Witness ==
    \E p \in Slots :
        /\ C20_Applies(procs[p])
        /\ procs[p].pc = "done"
        /\ procs[p].room # None
        /\ DeclaredOf(procs[p].session) # None

----------------------------------------------------------------------------
(* C21 *)

(* A field of the record is to be overwritten with the stashed persona. *)
C21_Differs(room, stashed) ==
    \/ stashed.preset # EMPTY /\ room.preset # stashed.preset
    \/ stashed.model # "" /\ room.model # stashed.model
    \/ room.chatMode # stashed.chatMode

(* The post-hook ran once on a context with stashed context and a record. *)
C21_Applies(pr) ==
    /\ pr.postRuns = 1
    /\ pr.charonBotConfig # None
    /\ pr.room # None

(* C21: the post-hook is about to upsert only a record of which it overwrote
   preset, model or chatMode; after the upsert the bound record is the record
   in the store; when it completes without an upsert, nothing was to be
   overwritten, and (unless it went through find-or-create) the store and
   the binding are what they were when it began. *)
C21_UpsertIffOverwritten ==
    \A p \in Slots :
        C21_Applies(procs[p]) =>
            LET pr == procs[p]
                stashed == pr.charonBotConfig[1]
            IN  /\ pr.pc = "upsert" =>
                    /\ C21_Differs(pr.room[1], stashed)
                    /\ ~C21_Differs(pr.fixedRoom[1], stashed)
                    /\ pr.fixedRoom[1].updatedTime >= pr.room[1].updatedTime
                /\ (pr.pc = "done" /\ pr.fixedRoom # None) =>
                    /\ pr.room = pr.fixedRoom
                    /\ {r \in rooms : r.roomId = pr.room[1].roomId} = {pr.room[1]}
                /\ (pr.pc = "done" /\ pr.fixedRoom = None) =>
                    /\ ~C21_Differs(pr.room[1], stashed)
                    /\ pr.ret # "post" =>
                         /\ pr.room = pr.snapHost[1].room
                         /\ SameStore(pr.snapHost[1], CurrentStore(pr))

(* The post-hook repaired and upserted a record the host had overwritten. *)
C21_Witness ==
    \E p \in Slots :
        /\ C21_Applies(procs[p])
        /\ procs[p].pc = "done"
        /\ procs[p].fixedRoom # None
        /\ procs[p].room # procs[p].snapHost[1].room

----------------------------------------------------------------------------
(* C22 *)

(* The chatMode the identity of the message declares, 'chat' when it
   declares none. *)
C22_DeclaredMode(session) ==
    LET declared == DeclaredOf(session)[1]
    IN  IF declared.chatMode # NONE THEN declared.chatMode ELSE "chat"

C22_Applies(pr) ==
    /\ pr.pc = "done"
    /\ pr.postRuns >= 1
    /\ pr.charonBotConfig # None
    /\ pr.room # None

(* C22: when the post-hook has completed with stashed context and a bound
   record, the chatMode of the bound record, and of that record in the
   store, is the declared chatMode of the identity, 'chat' when none is
   declared. *)
C22_ChatModeAlwaysEnforced ==
    \A p \in Slots :
        C22_Applies(procs[p]) =>
            /\ procs[p].room[1].chatMode = C22_DeclaredMode(procs[p].session)
            /\ \A r \in rooms :
                   r.roomId = procs[p].room[1].roomId =>
                       r.chatMode = C22_DeclaredMode(procs[p].session)

(* No preset is declared, and the post-hook changed the chatMode of the
   record the host step left. *)
C22_Witness ==
    \E p \in Slots :
        /\ C22_Applies(procs[p])
        /\ procs[p].charonBotConfig[1].preset = EMPTY
        /\ procs[p].snapHost[1].room[1].chatMode # procs[p].room[1].chatMode

----------------------------------------------------------------------------
(* C23 *)

(* <identityId>_<id>, the identity being platform:selfId of the bot. *)
C23_Isolated(session, id) ==
    IF id \in {UNDEF, EMPTY} THEN id ELSE IdentityOf(session) \o <<"_">> \o id

(* C23: after the listener ran on a layer of a bot, every identifier present
   on the layer is <platform:selfId>_<identifier>, and an absent one is
   absent. *)
C23_MemoryKeysEmbedIdentity ==
    (layerConfig.original # None /\ layerConfig.session.selfId # UNDEF) =>
        /\ layerConfig.userId
               = C23_Isolated(layerConfig.session, layerConfig.original[1].userId)
        /\ layerConfig.guildId
               = C23_Isolated(layerConfig.session, layerConfig.original[1].guildId)

----------------------------------------------------------------------------
(* C24 *)

(* The names a call gathered: the entries of what the two sources answered
   to this call. *)
C24_GatheredBy(call) ==
    EntriesOf(S_chatluna, call.chatluna) \o EntriesOf(S_character, call.character)

(* C24: whenever the cached preset list changes, it becomes the complete
   list gathered by the one loadPresets call that completes in this step:
   the entries of both answers this call received and nothing else. *)
C24_CacheIsOneCompleteResult ==
    [][presetCache' # presetCache =>
         \E k \in RefreshSlots :
             /\ refresh[k].pc = "loadCharacterPresets"
             /\ refresh'[k].pc = "idle"
             /\ presetCache' # None
             /\ [i \in 1..Len(presetCache'[1]) |-> presetCache'[1][i].name]
                    = C24_GatheredBy(refresh'[k])]_vars

(* Two calls are in flight together, with different partial lists, while
   the cache holds the list of an earlier call. *)
C24_Witness ==
    /\ \A k \in RefreshSlots : refresh[k].pc = "loadCharacterPresets"
    /\ refresh[1].presets # refresh[2].presets
    /\ presetCache # None
    /\ presetCache[1] # << >>

----------------------------------------------------------------------------
(* C25: the refresh is single-flight: at every moment at most one            *)
(* loadPresets call is executing; a trigger (ready, config-updated, the      *)
(* character subsystem's ready) that arrives while a refresh runs starts no  *)
(* overlapping one.                                                          *)

Refreshing == {k \in RefreshSlots : refresh[k].pc # "idle"}

C25_RefreshIsSingleFlight == Cardinality(Refreshing) <= 1

----------------------------------------------------------------------------
(* C26: every record creation of the core assigns recordId = 1 + the largest *)
(* recordId in the store when the creation starts (1 for an empty store);    *)
(* creations that do not overlap get pairwise distinct, strictly increasing  *)
(* recordIds.                                                                *)

C26_IdIsOnePlusMax ==
    [][/\ \A p \in Slots :
            procs[p].pc = "readMaxRoomId" /\ procs'[p].pc = "createRoomRow" =>
                /\ procs'[p].newRoom[1].roomId = MaxRoomId(rooms) + 1
                /\ rooms = {} => procs'[p].newRoom[1].roomId = 1
       /\ \A c \in coreCreated' \ coreCreated :
            /\ \A r \in rooms : c.roomId > r.roomId
            /\ \A d \in coreCreated : c.roomId > d.roomId]_vars

(* Two creations of the core, one after the other, both in the store. *)
C26_Witness ==
    \E c \in coreCreated : \E d \in coreCreated :
        /\ c.roomId < d.roomId
        /\ {c.roomId, d.roomId} \subseteq {r.roomId : r \in rooms}
        /\ \A p \in Slots : procs[p].pc = "idle"

----------------------------------------------------------------------------
(* The status map on its own: setBotStatus is called with any identity and   *)
(* any subset of the status fields.                                          *)

(* Partial<BotStatus>, types.ts lines 179-194: the fields a call supplies. *)
StatusUpdates ==
    {[f \in D |-> full[f]] :
        full \in [initialized : BOOLEAN, templateRoomId : {Some(1)}, error : {"Error"}],
        D \in SUBSET {"initialized", "templateRoomId", "error"}}

SetBotStatus ==
    /\ Len(statusCalls) < MaxCalls
    /\ \E botId \in BotIds : \E status \in StatusUpdates :
         /\ botStatusMap' = setBotStatus(botStatusMap, botId, status)
         /\ statusCalls' = Append(statusCalls, [botId |-> botId, status |-> status])
    /\ UNCHANGED <<config, rooms, members, groupMembers, users, uuidCounter, clock,
                   characterConfig, procs, coreCreated, raceLog, presetCache, refresh,
                   plugin, chain, layerConfig, botConfigStore, parseIn, parseOut>>

InitStatus ==
    /\ config = <<SecondBotConfig>>
    /\ InitStore
    /\ InitPlugin(None)
    /\ chain = HostChain
    /\ parseIn = EMPTY
    /\ parseOut = None

NextStatus == SetBotStatus

SpecStatus == InitStatus /\ [][NextStatus]_vars

----------------------------------------------------------------------------
(* C27: after any sequence of setBotStatus calls the map holds one entry for *)
(* each identity a call named and none for the others; every field of an     *)
(* entry is the value of the most recent call for that identity that         *)
(* supplied the field, or the default (initialized = false, the rest unset)  *)
(* when no call supplied it; so a call for one identity leaves the entries   *)
(* of the others as they were.                                               *)

C27_Supplying(botId, f) ==
    {i \in 1..Len(statusCalls) :
        statusCalls[i].botId = botId /\ f \in DOMAIN statusCalls[i].status}

C27_Last(S) == CHOOSE i \in S : \A j \in S : j <= i

C27_Default(botId) ==
    [botId |-> botId, platform |-> parseBotId(botId).platform,
     initialized |-> FALSE, templateRoomId |-> None, error |-> NONE]

C27_StatusIsLastSupplied ==
    \A botId \in BotIds :
        IF \A i \in 1..Len(statusCalls) : statusCalls[i].botId # botId
        THEN botStatusMap[botId] = None
        ELSE /\ botStatusMap[botId] # None
             /\ DOMAIN botStatusMap[botId][1] = DOMAIN C27_Default(botId)
             /\ \A f \in DOMAIN C27_Default(botId) :
                    botStatusMap[botId][1][f] =
                        IF C27_Supplying(botId, f) = {} THEN C27_Default(botId)[f]
                        ELSE statusCalls[C27_Last(C27_Supplying(botId, f))].status[f]

(* An identity was set twice, the second call changing one field and not
   supplying another that the first supplied; another identity was set in
   between. *)
C27_Witness ==
    /\ Len(statusCalls) = 3
    /\ statusCalls[1].botId = statusCalls[3].botId
    /\ statusCalls[2].botId # statusCalls[1].botId
    /\ DOMAIN statusCalls[1].status = {"initialized", "templateRoomId"}
    /\ DOMAIN statusCalls[3].status = {"initialized"}
    /\ statusCalls[1].status.initialized # statusCalls[3].status.initialized
    /\ botStatusMap[statusCalls[1].botId][1].templateRoomId = Some(1)

----------------------------------------------------------------------------
(* The character plugin on its own: the plugin is loaded before or after the *)
(* character service; the service emits ready whenever it (re)starts.        *)

InitCharacter ==
    /\ config \in {<<c, SecondBotConfig>> : c \in TemplateConfigs(getBotId(<<"d">>, <<"1">>))}
    /\ InitStore
    /\ \E store \in {None, Some({})} : InitPlugin(store)
    /\ chain = HostChain
    /\ parseIn = EMPTY
    /\ parseOut = None

NextCharacter ==
    \/ CharacterReady
    \/ CheckTimerFires
    \/ ConfigUpdated
    \/ PresetLoadTimerFires(1)
    \/ LoadPresetsCompletes(1)
    \/ Dispose

SpecCharacter == InitCharacter /\ [][NextCharacter]_vars

----------------------------------------------------------------------------
(* C28: whatever the load order of the two plugins, every time the character *)
(* service emits ready after the plugin started, the plugin registers the    *)
(* persona configuration of every bot with the service again.                *)

C28_Registered ==
    {[botId |-> config[i].botId,
      preset |-> parsePresetName(config[i].preset).name,
      model |-> config[i].model] :
        i \in {j \in 1..Len(config) : config[j].preset # EMPTY \/ config[j].model # ""}}

C28_ReadyReRegisters ==
    plugin.lastReady # "none" =>
        /\ plugin.lastReady = "registered"
        /\ botConfigStore # None
        /\ \A c \in C28_Registered :
              \E d \in botConfigStore[1] :
                 /\ d.botId = c.botId
                 /\ d.model = c.model
                 /\ d.preset = IF c.preset # EMPTY THEN c.preset ELSE UNDEF

----------------------------------------------------------------------------
(* The status events on their own: the tasks of two bot-status-updated       *)
(* events interleave at their awaits.                                        *)

NextStatusEvents == \E t \in TemplateSlots : TemplateStep(t)

SpecStatusEvents == InitTemplate /\ [][NextStatusEvents]_vars

----------------------------------------------------------------------------
(* C29: after any sequence or interleaving of bot-status-updated events the  *)
(* store holds at most one template record named after each bot; a further   *)
(* or concurrent status event creates no second one.                         *)

C29_TemplatesOf(botId) == {r \in rooms : r.roomName = TemplateRoomName(botId)}

C29_OneTemplatePerBot ==
    \A botId \in BotIds : Cardinality(C29_TemplatesOf(botId)) <= 1

----------------------------------------------------------------------------
(* C30: the post-hook never writes preset, model or chatMode into a record   *)
(* whose conversationId does not start with bot_<I>_, I being the identity   *)
(* of the stashed context.                                                   *)

C30_PostHookWritesOwnRecordOnly ==
    \A p \in Slots :
        procs[p].pc = "upsert" =>
            StartsWith(procs[p].fixedRoom[1].conversationId,
                       KeyPrefix(procs[p].charonBotConfig[1].botId))

----------------------------------------------------------------------------
(* C31: a record the core created for bot J is never classified as a record  *)
(* of another configured bot I: its conversationId does not start with       *)
(* bot_<I>_ (the test of the post-hook) and its roomName does not hold (I)   *)
(* (the test of getOrCreateBotSpecificRoom).                                 *)

C31_OwnershipUnambiguous ==
    \A c \in coreCreated : \A r \in rooms :
        r.roomId = c.roomId =>
            \A i \in 1..Len(config) :
                config[i].botId # getBotId(c.platform, c.selfId) =>
                    /\ ~isRoomForBot(r, config[i].botId)
                    /\ ~Includes(r.roomName, <<"(">> \o config[i].botId \o <<")">>)

----------------------------------------------------------------------------
(* C32: getOrCreateBotSpecificRoom never binds a direct message to a record  *)
(* of a group scope: the record it returns to the pre-hook of a direct       *)
(* message is not a template_clone record and has no group row.              *)

C32_DirectGetsPrivateRecord ==
    \A p \in Slots :
        LET pr == procs[p]
        IN  (/\ pr.pc = "host"
             /\ pr.ret = "pre"
             /\ pr.room # None
             /\ isDirect(pr.session)) =>
                /\ pr.room[1].visibility # "template_clone"
                /\ \A g \in groupMembers : g.roomId # pr.room[1].roomId

----------------------------------------------------------------------------
(* C33: after any sequence of messages processed one at a time, the store    *)
(* holds at most one template_clone record created by the core per bot and   *)
(* group: a second user writing in the group is bound to the record the      *)
(* group already has for the bot.                                            *)

C33_GroupRecords(platform, selfId, groupId) ==
    {r \in rooms :
        /\ r.visibility = "template_clone"
        /\ \E c \in coreCreated :
              c.roomId = r.roomId /\ c.platform = platform /\ c.selfId = selfId
        /\ \E g \in groupMembers : g.roomId = r.roomId /\ g.groupId = groupId}

C33_OneRecordPerBotAndGroup ==
    \A bot \in Bots : \A groupId \in GuildIds \ {UNDEF} :
        Cardinality(C33_GroupRecords(bot.platform, bot.selfId, groupId)) <= 1

----------------------------------------------------------------------------
(* Messages, one at a time, over a store whose create calls may fail: the    *)
(* catch branches of createRoom, bot-manager.ts lines 392-395 and 406-409.   *)

CreateMemberRowFails(p) ==
    /\ procs[p].pc = "createMemberRow"
    /\ Apply(p, CreateRoomThrows(procs[p]))

CreateGroupRowFails(p) ==
    /\ procs[p].pc = "createGroupRow"
    /\ Apply(p, CreateRoomThrows(procs[p]))

NextStoreFailure ==
    \/ ReceiveUnnamed
    \/ \E p \in Slots : MessageStep(p)
    \/ \E p \in Slots : CreateMemberRowFails(p)
    \/ \E p \in Slots : CreateGroupRowFails(p)

SpecStoreFailure == InitTemplate /\ [][NextStoreFailure]_vars

----------------------------------------------------------------------------
(* C34: every record the core created, once its createRoom call is over,    *)
(* also when a create of the store failed in the middle of it, has a member  *)
(* row for its master user and, when it was created for a group, a group     *)
(* row, so that getOrCreateBotSpecificRoom can find it.                      *)

C34_BeingCreated(r) ==
    \E p \in Slots \cup TemplateSlots :
        /\ procs[p].pc \in CreatePcs
        /\ procs[p].newRoom = Some(r)

C34_CreatedRecordsAreReachable ==
    \A c \in coreCreated : \A r \in rooms :
        (r.roomId = c.roomId /\ ~C34_BeingCreated(r)) =>
            /\ \E mb \in members :
                  mb.roomId = r.roomId /\ mb.userId = r.roomMasterId
            /\ (/\ r.visibility = "template_clone"
                /\ r.roomName # TemplateRoomName(getBotId(c.platform, c.selfId))) =>
                  \E g \in groupMembers : g.roomId = r.roomId

----------------------------------------------------------------------------
(* C35: the post-hook changes at most preset, model, chatMode and            *)
(* updatedTime of the record it leaves bound; every other field of that      *)
(* record and every field of every other stored record are what they were    *)
(* when the post-hook began.                                                 *)

C35_FrameFields ==
    {"roomId", "conversationId", "roomName", "roomMasterId", "visibility",
     "password", "autoUpdate"}

C35_Applies(pr) ==
    /\ pr.postRuns = 1
    /\ pr.pc = "done"
    /\ pr.snapHost # None

C35_PostHookFrame ==
    \A p \in Slots :
        C35_Applies(procs[p]) =>
            \A old \in procs[p].snapHost[1].rooms :
                \E r \in rooms :
                    /\ r.roomId = old.roomId
                    /\ \A f \in C35_FrameFields : r[f] = old[f]
                    /\ r # old =>
                          /\ procs[p].room # None
                          /\ procs[p].room[1].roomId = r.roomId

(* The post-hook wrote into the bound record while the store held another
   record. *)
C35_Witness ==
    \E p \in Slots :
        /\ C35_Applies(procs[p])
        /\ procs[p].fixedRoom # None
        /\ procs[p].fixedRoom[1] \notin procs[p].snapHost[1].rooms
        /\ \E old \in procs[p].snapHost[1].rooms :
              /\ old.roomId = procs[p].fixedRoom[1].roomId
              /\ old.visibility = "template_clone"
        /\ Cardinality(rooms) = 2

----------------------------------------------------------------------------
(* C36: after any interleaving of triggers, timer firings and completed      *)
(* loads at most one timeout set by schedulePresetLoad is pending: a new     *)
(* trigger clears the one scheduled before, also when a load completed in    *)
(* between.                                                                  *)

PendingPresetLoads ==
    (IF "presetLoadTimer" \in plugin.timers THEN 1 ELSE 0) + UnreferencedCount(plugin)

C36_OnePendingPresetLoad == PendingPresetLoads <= 1

----------------------------------------------------------------------------
(* C37: a forced refresh is never downgraded by debouncing: while the        *)
(* timeout of a schedulePresetLoad(true) is pending, a further trigger       *)
(* leaves the pending refresh a forced one.                                  *)

C37_ForceSurvivesDebounce ==
    [][(/\ "presetLoadTimer" \in plugin.timers
        /\ plugin.force
        /\ "presetLoadTimer" \in plugin'.timers) => plugin'.force]_vars

----------------------------------------------------------------------------
(* C38: however often chatluna/ready fires, and whether or not the fallback  *)
(* timer fires too, each hook is one task of the chain and is started at     *)
(* most once in the run of a message, the interceptor has saved each hook it *)
(* registered, and once stop has run no hook the interceptor registered is   *)
(* a task of the chain.                                                      *)

C38_Hooks == {charon_resolve_bot_room, charon_fix_room_auto_update}

C38_Starts(hook) == {i \in DOMAIN chain.log : chain.log[i] = <<"start", hook>>}

C38_HooksRegisteredOnce ==
    /\ \A hook \in C38_Hooks :
         /\ Cardinality(C38_Starts(hook)) <= 1
         /\ Cardinality({i \in DOMAIN chain.order : chain.order[i] = hook}) <= 1
    /\ ~plugin.disposed =>
         /\ chain.tasks \cap C38_Hooks = plugin.middlewares
         /\ plugin.middlewares \in {{}, C38_Hooks}
    /\ plugin.disposed => chain.tasks \cap C38_Hooks = {}

----------------------------------------------------------------------------
(* C39: whenever handleBotStatusUpdate has set a bot's status to             *)
(* initialized and the bot's preset is not a character preset, the status    *)
(* carries the roomId of a stored template record and no error; a failed     *)
(* creation leaves initialized false, so that a later status event retries.  *)

C39_InitializedMeansTemplate ==
    \A botId \in BotIds :
        (/\ botStatusMap[botId] # None
         /\ botStatusMap[botId][1].initialized
         /\ getBotConfig(botId) # None
         /\ parsePresetName(getBotConfig(botId)[1].preset).source
                # PresetSource_Character) =>
            LET status == botStatusMap[botId][1]
            IN  /\ status.error = NONE
                /\ status.templateRoomId # None
                /\ \E r \in rooms : r.roomId = status.templateRoomId[1]

----------------------------------------------------------------------------
(* parsePresetName on its own: the argument is drawn from the strings made   *)
(* of at most MaxTokens tokens, each a source name, a separator or a letter. *)

RawTokens == {S_chatluna, S_character, <<":">>, <<"x">>}

RECURSIVE RawNames(_)
RawNames(n) ==
    IF n = 0 THEN {EMPTY}
    ELSE LET shorter == RawNames(n - 1)
         IN  shorter \cup {t \o r : t \in RawTokens, r \in shorter}

CallParsePresetName ==
    /\ parseOut = None
    /\ parseOut' = Some(parsePresetName(parseIn))
    /\ UNCHANGED <<config, rooms, members, groupMembers, users, uuidCounter, clock,
                   characterConfig, procs, botStatusMap, coreCreated, raceLog,
                   presetCache, refresh, plugin, chain, layerConfig, statusCalls, botConfigStore, parseIn>>

InitParse ==
    /\ config = <<SecondBotConfig>>
    /\ InitStore
    /\ InitPlugin(None)
    /\ chain = HostChain
    /\ parseIn \in RawNames(MaxTokens)
    /\ parseOut = None

NextParse == CallParsePresetName

SpecParse == InitParse /\ [][NextParse]_vars

----------------------------------------------------------------------------
(* C10 *)

(* C10: for every raw string, parsePresetName returns the known source before
   the first ':' together with the whole remainder after it (also when the
   remainder holds another ':'), and otherwise the default source chatluna
   with the whole raw string as name. *)
C10_ResolveNameSplitsAtFirstSeparator ==
    parseOut # None => parseOut[1] = FirstSeparatorSplit(parseIn)

====
